---- MODULE Spec2Model ----
(***************************************************************************)
(* Felix Python AST helper (packages/code-intelligence/.../               *)
(* python_ast_helper.py): the persistent server-mode session loop, the    *)
(* request dispatcher, the tree serializer, the import extractor and the  *)
(* module resolver.                                                       *)
(*                                                                         *)
(* Python values are tagged records; a dict is an ordered sequence of     *)
(* key/value items, as in Python.  An operation that can raise returns    *)
(* either Return(value) or Raise(exception class).                        *)
(***************************************************************************)
EXTENDS Integers, Sequences, FiniteSets, TLC

(* ---------------------------------------------------------------------- *)
(* Bounds                                                                 *)
(* ---------------------------------------------------------------------- *)
MaxLines == 3
MaxIdLines == 2
MaxLiveLines == 3
MaxFileLines == 2
MaxTreeLines == 2
MaxModuleLines == 3
MaxMixedLines == 3
MaxStdinLines == 2
MaxInputs == 2
MaxTextLen == 2
MaxLabelLines == 2
MaxAgreeLines == 2
MaxLookupLines == 2

(* ---------------------------------------------------------------------- *)
(* Python values                                                          *)
(* ---------------------------------------------------------------------- *)
PyNone == [t |-> "None"]
PyStr(s) == [t |-> "str", v |-> s]
PyInt(n) == [t |-> "int", v |-> n]
PyBool(b) == [t |-> "bool", v |-> b]
PyBytes(s) == [t |-> "bytes", v |-> s]
PyList(s) == [t |-> "list", v |-> s]
PyDict(items) == [t |-> "dict", v |-> items]
AstNode(type, attrs, fields) == [t |-> "ast", type |-> type, attrs |-> attrs, fields |-> fields]

Item(k, val) == [k |-> k, v |-> val]

Return(val) == [raised |-> FALSE, value |-> val]
Raise(exc, msg) == [raised |-> TRUE, exc |-> exc, msg |-> msg]

HasKey(d, k) == \E i \in 1..Len(d.v) : d.v[i].k = k

DictGet(d, k, default) ==
    IF HasKey(d, k)
    THEN d.v[CHOOSE i \in 1..Len(d.v) : d.v[i].k = k].v
    ELSE default

DictSet(d, k, val) ==
    IF HasKey(d, k)
    THEN PyDict([i \in 1..Len(d.v) |-> IF d.v[i].k = k THEN Item(k, val) ELSE d.v[i]])
    ELSE PyDict(Append(d.v, Item(k, val)))

Keys(d) == {d.v[i].k : i \in 1..Len(d.v)}

(* Truthy under which only None is false *)
Truthy_NoneOnly(x) == x.t # "None"

Truthy(x) ==
    CASE x.t = "None" -> FALSE
      [] x.t = "bool" -> x.v
      [] x.t = "int" -> x.v # 0
      [] x.t = "str" -> x.v # ""
      [] x.t = "bytes" -> x.v # ""
      [] x.t = "list" -> Len(x.v) > 0
      [] x.t = "dict" -> Len(x.v) > 0
      [] OTHER -> TRUE

TypeName(x) ==
    CASE x.t = "None" -> "NoneType"
      [] x.t = "list" -> "list"
      [] x.t = "dict" -> "dict"
      [] x.t = "int" -> "int"
      [] x.t = "bool" -> "bool"
      [] x.t = "str" -> "str"
      [] OTHER -> x.t

RECURSIVE JsonSerializable(_)
JsonSerializable(x) ==
    CASE x.t \in {"None", "bool", "int", "str"} -> TRUE
      [] x.t = "list" -> \A i \in 1..Len(x.v) : JsonSerializable(x.v[i])
      [] x.t = "dict" -> \A i \in 1..Len(x.v) : JsonSerializable(x.v[i].v)
      [] OTHER -> FALSE

(* ---------------------------------------------------------------------- *)
(* Native trees produced by the host parser (ast.parse)                   *)
(* ---------------------------------------------------------------------- *)
Loc(l, c, el, ec) ==
    << Item("lineno", PyInt(l)), Item("col_offset", PyInt(c)),
       Item("end_lineno", PyInt(el)), Item("end_col_offset", PyInt(ec)) >>

NameNode(id, ctx, loc) ==
    AstNode("Name", loc, << Item("id", PyStr(id)), Item("ctx", AstNode(ctx, <<>>, <<>>)) >>)

ConstantNode(val, loc) ==
    AstNode("Constant", loc, << Item("value", val), Item("kind", PyNone) >>)

AssignNode(target, val, loc) ==
    AstNode("Assign", loc,
            << Item("targets", PyList(<<target>>)), Item("value", val),
               Item("type_comment", PyNone) >>)

AliasNode(name, asname, loc) ==
    AstNode("alias", loc, << Item("name", PyStr(name)), Item("asname", asname) >>)

ImportNode(names, loc) ==
    AstNode("Import", loc, << Item("names", PyList(names)) >>)

ImportFromNode(module, names, level, loc) ==
    AstNode("ImportFrom", loc,
            << Item("module", module), Item("names", PyList(names)),
               Item("level", PyInt(level)) >>)

IfNode(test, body, orelse, loc) ==
    AstNode("If", loc,
            << Item("test", test), Item("body", PyList(body)),
               Item("orelse", PyList(orelse)) >>)

ModuleNode(body) ==
    AstNode("Module", <<>>, << Item("body", PyList(body)), Item("type_ignores", PyList(<<>>)) >>)

SrcEmpty == ""
SrcAssign == "x = 1"
SrcBytes == "x = b'a'"
SrcImport == "import os"
SrcNested == "if x:\n    from . import a as b"
SrcSyntax == "def f(:"
SrcTwoImports == "import os\nfrom a.b import c as d"
SrcDeepImports == "import sys\ndef f():\n    try:\n        import json as j, re\n    except E:\n        from ..pkg import *\nclass C:\n    from . import a as b\nimport os"
SrcMixedDict == "d = {**a, 'k': 1}"
SrcLongSum == "x = 1+1+1+1+1+1+1+1+1+1"
SrcLongerSum == "x = 1+1+1+1+1+1+1+1+1+1+1+1+1+1+1+1+1+1+1+1"

TreeOf(src) ==
    CASE src = SrcEmpty -> ModuleNode(<<>>)
      [] src = SrcAssign ->
            ModuleNode(<< AssignNode(NameNode("x", "Store", Loc(1, 0, 1, 1)),
                                     ConstantNode(PyInt(1), Loc(1, 4, 1, 5)),
                                     Loc(1, 0, 1, 5)) >>)
      [] src = SrcBytes ->
            ModuleNode(<< AssignNode(NameNode("x", "Store", Loc(1, 0, 1, 1)),
                                     ConstantNode(PyBytes("a"), Loc(1, 4, 1, 8)),
                                     Loc(1, 0, 1, 8)) >>)
      [] src = SrcImport ->
            ModuleNode(<< ImportNode(<< AliasNode("os", PyNone, Loc(1, 7, 1, 9)) >>,
                                     Loc(1, 0, 1, 9)) >>)
      [] src = SrcNested ->
            ModuleNode(<< IfNode(NameNode("x", "Load", Loc(1, 3, 1, 4)),
                                 << ImportFromNode(PyNone,
                                        << AliasNode("a", PyStr("b"), Loc(2, 18, 2, 24)) >>,
                                        1, Loc(2, 4, 2, 24)) >>,
                                 <<>>, Loc(1, 0, 2, 24)) >>)
      [] src = SrcTwoImports ->
            AstNode("Module", << >>,
                    << Item("body", PyList(<< AstNode("Import", Loc(1, 0, 1, 9),
                                                     << Item("names", PyList(<< AstNode("alias", Loc(1, 7, 1, 9),
                                                                                       << Item("name", PyStr("os")),
                                                                                          Item("asname", PyNone) >>) >>)) >>),
                                             AstNode("ImportFrom", Loc(2, 0, 2, 22),
                                                     << Item("module", PyStr("a.b")),
                                                        Item("names", PyList(<< AstNode("alias", Loc(2, 16, 2, 22),
                                                                                       << Item("name", PyStr("c")),
                                                                                          Item("asname", PyStr("d")) >>) >>)),
                                                        Item("level", PyInt(0)) >>) >>)),
                       Item("type_ignores", PyList(<< >>)) >>)
      [] src = SrcDeepImports ->
            AstNode("Module", << >>,
                    << Item("body", PyList(<< AstNode("Import", Loc(1, 0, 1, 10),
                                                     << Item("names", PyList(<< AstNode("alias", Loc(1, 7, 1, 10),
                                                                                       << Item("name", PyStr("sys")),
                                                                                          Item("asname", PyNone) >>) >>)) >>),
                                             AstNode("FunctionDef", Loc(2, 0, 6, 27),
                                                     << Item("name", PyStr("f")),
                                                        Item("args", AstNode("arguments", << >>,
                                                                             << Item("posonlyargs", PyList(<< >>)),
                                                                                Item("args", PyList(<< >>)),
                                                                                Item("vararg", PyNone),
                                                                                Item("kwonlyargs", PyList(<< >>)),
                                                                                Item("kw_defaults", PyList(<< >>)),
                                                                                Item("kwarg", PyNone),
                                                                                Item("defaults", PyList(<< >>)) >>)),
                                                        Item("body", PyList(<< AstNode("Try", Loc(3, 4, 6, 27),
                                                                                      << Item("body", PyList(<< AstNode("Import", Loc(4, 8, 4, 28),
                                                                                                                       << Item("names", PyList(<< AstNode("alias", Loc(4, 15, 4, 24),
                                                                                                                                                         << Item("name", PyStr("json")),
                                                                                                                                                            Item("asname", PyStr("j")) >>),
                                                                                                                                                 AstNode("alias", Loc(4, 26, 4, 28),
                                                                                                                                                         << Item("name", PyStr("re")),
                                                                                                                                                            Item("asname", PyNone) >>) >>)) >>) >>)),
                                                                                         Item("handlers", PyList(<< AstNode("ExceptHandler", Loc(5, 4, 6, 27),
                                                                                                                           << Item("type", AstNode("Name", Loc(5, 11, 5, 12),
                                                                                                                                                   << Item("id", PyStr("E")),
                                                                                                                                                      Item("ctx", AstNode("Load", << >>,
                                                                                                                                                                          << >>)) >>)),
                                                                                                                              Item("name", PyNone),
                                                                                                                              Item("body", PyList(<< AstNode("ImportFrom", Loc(6, 8, 6, 27),
                                                                                                                                                            << Item("module", PyStr("pkg")),
                                                                                                                                                               Item("names", PyList(<< AstNode("alias", Loc(6, 26, 6, 27),
                                                                                                                                                                                              << Item("name", PyStr("*")),
                                                                                                                                                                                                 Item("asname", PyNone) >>) >>)),
                                                                                                                                                               Item("level", PyInt(2)) >>) >>)) >>) >>)),
                                                                                         Item("orelse", PyList(<< >>)),
                                                                                         Item("finalbody", PyList(<< >>)) >>) >>)),
                                                        Item("decorator_list", PyList(<< >>)),
                                                        Item("returns", PyNone),
                                                        Item("type_comment", PyNone) >>),
                                             AstNode("ClassDef", Loc(7, 0, 8, 24),
                                                     << Item("name", PyStr("C")),
                                                        Item("bases", PyList(<< >>)),
                                                        Item("keywords", PyList(<< >>)),
                                                        Item("body", PyList(<< AstNode("ImportFrom", Loc(8, 4, 8, 24),
                                                                                      << Item("module", PyNone),
                                                                                         Item("names", PyList(<< AstNode("alias", Loc(8, 18, 8, 24),
                                                                                                                        << Item("name", PyStr("a")),
                                                                                                                           Item("asname", PyStr("b")) >>) >>)),
                                                                                         Item("level", PyInt(1)) >>) >>)),
                                                        Item("decorator_list", PyList(<< >>)) >>),
                                             AstNode("Import", Loc(9, 0, 9, 9),
                                                     << Item("names", PyList(<< AstNode("alias", Loc(9, 7, 9, 9),
                                                                                       << Item("name", PyStr("os")),
                                                                                          Item("asname", PyNone) >>) >>)) >>) >>)),
                       Item("type_ignores", PyList(<< >>)) >>)
      [] src = SrcLongSum ->
            [t |-> "ast", type |-> "Module", attrs |-> << >>, fields |-> <<
              [k |-> "body", v |-> [t |-> "list", v |-> <<
                [t |-> "ast", type |-> "Assign", attrs |-> Loc(1, 0, 1, 23), fields |-> <<
                  [k |-> "targets", v |-> [t |-> "list", v |-> <<
                    [t |-> "ast", type |-> "Name", attrs |-> Loc(1, 0, 1, 1), fields |-> <<
                      [k |-> "id", v |-> PyStr("x")],
                      [k |-> "ctx", v |-> [t |-> "ast", type |-> "Store", attrs |-> << >>, fields |-> << >>]] >>] >>]],
                  [k |-> "value", v |-> [t |-> "ast", type |-> "BinOp", attrs |-> Loc(1, 4, 1, 23), fields |-> <<
                    [k |-> "left", v |-> [t |-> "ast", type |-> "BinOp", attrs |-> Loc(1, 4, 1, 21), fields |-> <<
                      [k |-> "left", v |-> [t |-> "ast", type |-> "BinOp", attrs |-> Loc(1, 4, 1, 19), fields |-> <<
                        [k |-> "left", v |-> [t |-> "ast", type |-> "BinOp", attrs |-> Loc(1, 4, 1, 17), fields |-> <<
                          [k |-> "left", v |-> [t |-> "ast", type |-> "BinOp", attrs |-> Loc(1, 4, 1, 15), fields |-> <<
                            [k |-> "left", v |-> [t |-> "ast", type |-> "BinOp", attrs |-> Loc(1, 4, 1, 13), fields |-> <<
                              [k |-> "left", v |-> [t |-> "ast", type |-> "BinOp", attrs |-> Loc(1, 4, 1, 11), fields |-> <<
                                [k |-> "left", v |-> [t |-> "ast", type |-> "BinOp", attrs |-> Loc(1, 4, 1, 9), fields |-> <<
                                  [k |-> "left", v |-> [t |-> "ast", type |-> "BinOp", attrs |-> Loc(1, 4, 1, 7), fields |-> <<
                                    [k |-> "left", v |-> [t |-> "ast", type |-> "Constant", attrs |-> Loc(1, 4, 1, 5), fields |-> <<
                                      [k |-> "value", v |-> PyInt(1)],
                                      [k |-> "kind", v |-> PyNone] >>]],
                                    [k |-> "op", v |-> [t |-> "ast", type |-> "Add", attrs |-> << >>, fields |-> << >>]],
                                    [k |-> "right", v |-> [t |-> "ast", type |-> "Constant", attrs |-> Loc(1, 6, 1, 7), fields |-> <<
                                      [k |-> "value", v |-> PyInt(1)],
                                      [k |-> "kind", v |-> PyNone] >>]] >>]],
                                  [k |-> "op", v |-> [t |-> "ast", type |-> "Add", attrs |-> << >>, fields |-> << >>]],
                                  [k |-> "right", v |-> [t |-> "ast", type |-> "Constant", attrs |-> Loc(1, 8, 1, 9), fields |-> <<
                                    [k |-> "value", v |-> PyInt(1)],
                                    [k |-> "kind", v |-> PyNone] >>]] >>]],
                                [k |-> "op", v |-> [t |-> "ast", type |-> "Add", attrs |-> << >>, fields |-> << >>]],
                                [k |-> "right", v |-> [t |-> "ast", type |-> "Constant", attrs |-> Loc(1, 10, 1, 11), fields |-> <<
                                  [k |-> "value", v |-> PyInt(1)],
                                  [k |-> "kind", v |-> PyNone] >>]] >>]],
                              [k |-> "op", v |-> [t |-> "ast", type |-> "Add", attrs |-> << >>, fields |-> << >>]],
                              [k |-> "right", v |-> [t |-> "ast", type |-> "Constant", attrs |-> Loc(1, 12, 1, 13), fields |-> <<
                                [k |-> "value", v |-> PyInt(1)],
                                [k |-> "kind", v |-> PyNone] >>]] >>]],
                            [k |-> "op", v |-> [t |-> "ast", type |-> "Add", attrs |-> << >>, fields |-> << >>]],
                            [k |-> "right", v |-> [t |-> "ast", type |-> "Constant", attrs |-> Loc(1, 14, 1, 15), fields |-> <<
                              [k |-> "value", v |-> PyInt(1)],
                              [k |-> "kind", v |-> PyNone] >>]] >>]],
                          [k |-> "op", v |-> [t |-> "ast", type |-> "Add", attrs |-> << >>, fields |-> << >>]],
                          [k |-> "right", v |-> [t |-> "ast", type |-> "Constant", attrs |-> Loc(1, 16, 1, 17), fields |-> <<
                            [k |-> "value", v |-> PyInt(1)],
                            [k |-> "kind", v |-> PyNone] >>]] >>]],
                        [k |-> "op", v |-> [t |-> "ast", type |-> "Add", attrs |-> << >>, fields |-> << >>]],
                        [k |-> "right", v |-> [t |-> "ast", type |-> "Constant", attrs |-> Loc(1, 18, 1, 19), fields |-> <<
                          [k |-> "value", v |-> PyInt(1)],
                          [k |-> "kind", v |-> PyNone] >>]] >>]],
                      [k |-> "op", v |-> [t |-> "ast", type |-> "Add", attrs |-> << >>, fields |-> << >>]],
                      [k |-> "right", v |-> [t |-> "ast", type |-> "Constant", attrs |-> Loc(1, 20, 1, 21), fields |-> <<
                        [k |-> "value", v |-> PyInt(1)],
                        [k |-> "kind", v |-> PyNone] >>]] >>]],
                    [k |-> "op", v |-> [t |-> "ast", type |-> "Add", attrs |-> << >>, fields |-> << >>]],
                    [k |-> "right", v |-> [t |-> "ast", type |-> "Constant", attrs |-> Loc(1, 22, 1, 23), fields |-> <<
                      [k |-> "value", v |-> PyInt(1)],
                      [k |-> "kind", v |-> PyNone] >>]] >>]],
                  [k |-> "type_comment", v |-> PyNone] >>] >>]],
              [k |-> "type_ignores", v |-> [t |-> "list", v |-> << >>]] >>]
      [] src = SrcLongerSum ->
            [t |-> "ast", type |-> "Module", attrs |-> << >>, fields |-> <<
              [k |-> "body", v |-> [t |-> "list", v |-> <<
                [t |-> "ast", type |-> "Assign", attrs |-> Loc(1, 0, 1, 43), fields |-> <<
                  [k |-> "targets", v |-> [t |-> "list", v |-> <<
                    [t |-> "ast", type |-> "Name", attrs |-> Loc(1, 0, 1, 1), fields |-> <<
                      [k |-> "id", v |-> PyStr("x")],
                      [k |-> "ctx", v |-> [t |-> "ast", type |-> "Store", attrs |-> << >>, fields |-> << >>]] >>] >>]],
                  [k |-> "value", v |-> [t |-> "ast", type |-> "BinOp", attrs |-> Loc(1, 4, 1, 43), fields |-> <<
                    [k |-> "left", v |-> [t |-> "ast", type |-> "BinOp", attrs |-> Loc(1, 4, 1, 41), fields |-> <<
                      [k |-> "left", v |-> [t |-> "ast", type |-> "BinOp", attrs |-> Loc(1, 4, 1, 39), fields |-> <<
                        [k |-> "left", v |-> [t |-> "ast", type |-> "BinOp", attrs |-> Loc(1, 4, 1, 37), fields |-> <<
                          [k |-> "left", v |-> [t |-> "ast", type |-> "BinOp", attrs |-> Loc(1, 4, 1, 35), fields |-> <<
                            [k |-> "left", v |-> [t |-> "ast", type |-> "BinOp", attrs |-> Loc(1, 4, 1, 33), fields |-> <<
                              [k |-> "left", v |-> [t |-> "ast", type |-> "BinOp", attrs |-> Loc(1, 4, 1, 31), fields |-> <<
                                [k |-> "left", v |-> [t |-> "ast", type |-> "BinOp", attrs |-> Loc(1, 4, 1, 29), fields |-> <<
                                  [k |-> "left", v |-> [t |-> "ast", type |-> "BinOp", attrs |-> Loc(1, 4, 1, 27), fields |-> <<
                                    [k |-> "left", v |-> [t |-> "ast", type |-> "BinOp", attrs |-> Loc(1, 4, 1, 25), fields |-> <<
                                      [k |-> "left", v |-> [t |-> "ast", type |-> "BinOp", attrs |-> Loc(1, 4, 1, 23), fields |-> <<
                                        [k |-> "left", v |-> [t |-> "ast", type |-> "BinOp", attrs |-> Loc(1, 4, 1, 21), fields |-> <<
                                          [k |-> "left", v |-> [t |-> "ast", type |-> "BinOp", attrs |-> Loc(1, 4, 1, 19), fields |-> <<
                                            [k |-> "left", v |-> [t |-> "ast", type |-> "BinOp", attrs |-> Loc(1, 4, 1, 17), fields |-> <<
                                              [k |-> "left", v |-> [t |-> "ast", type |-> "BinOp", attrs |-> Loc(1, 4, 1, 15), fields |-> <<
                                                [k |-> "left", v |-> [t |-> "ast", type |-> "BinOp", attrs |-> Loc(1, 4, 1, 13), fields |-> <<
                                                  [k |-> "left", v |-> [t |-> "ast", type |-> "BinOp", attrs |-> Loc(1, 4, 1, 11), fields |-> <<
                                                    [k |-> "left", v |-> [t |-> "ast", type |-> "BinOp", attrs |-> Loc(1, 4, 1, 9), fields |-> <<
                                                      [k |-> "left", v |-> [t |-> "ast", type |-> "BinOp", attrs |-> Loc(1, 4, 1, 7), fields |-> <<
                                                        [k |-> "left", v |-> [t |-> "ast", type |-> "Constant", attrs |-> Loc(1, 4, 1, 5), fields |-> <<
                                                          [k |-> "value", v |-> PyInt(1)],
                                                          [k |-> "kind", v |-> PyNone] >>]],
                                                        [k |-> "op", v |-> [t |-> "ast", type |-> "Add", attrs |-> << >>, fields |-> << >>]],
                                                        [k |-> "right", v |-> [t |-> "ast", type |-> "Constant", attrs |-> Loc(1, 6, 1, 7), fields |-> <<
                                                          [k |-> "value", v |-> PyInt(1)],
                                                          [k |-> "kind", v |-> PyNone] >>]] >>]],
                                                      [k |-> "op", v |-> [t |-> "ast", type |-> "Add", attrs |-> << >>, fields |-> << >>]],
                                                      [k |-> "right", v |-> [t |-> "ast", type |-> "Constant", attrs |-> Loc(1, 8, 1, 9), fields |-> <<
                                                        [k |-> "value", v |-> PyInt(1)],
                                                        [k |-> "kind", v |-> PyNone] >>]] >>]],
                                                    [k |-> "op", v |-> [t |-> "ast", type |-> "Add", attrs |-> << >>, fields |-> << >>]],
                                                    [k |-> "right", v |-> [t |-> "ast", type |-> "Constant", attrs |-> Loc(1, 10, 1, 11), fields |-> <<
                                                      [k |-> "value", v |-> PyInt(1)],
                                                      [k |-> "kind", v |-> PyNone] >>]] >>]],
                                                  [k |-> "op", v |-> [t |-> "ast", type |-> "Add", attrs |-> << >>, fields |-> << >>]],
                                                  [k |-> "right", v |-> [t |-> "ast", type |-> "Constant", attrs |-> Loc(1, 12, 1, 13), fields |-> <<
                                                    [k |-> "value", v |-> PyInt(1)],
                                                    [k |-> "kind", v |-> PyNone] >>]] >>]],
                                                [k |-> "op", v |-> [t |-> "ast", type |-> "Add", attrs |-> << >>, fields |-> << >>]],
                                                [k |-> "right", v |-> [t |-> "ast", type |-> "Constant", attrs |-> Loc(1, 14, 1, 15), fields |-> <<
                                                  [k |-> "value", v |-> PyInt(1)],
                                                  [k |-> "kind", v |-> PyNone] >>]] >>]],
                                              [k |-> "op", v |-> [t |-> "ast", type |-> "Add", attrs |-> << >>, fields |-> << >>]],
                                              [k |-> "right", v |-> [t |-> "ast", type |-> "Constant", attrs |-> Loc(1, 16, 1, 17), fields |-> <<
                                                [k |-> "value", v |-> PyInt(1)],
                                                [k |-> "kind", v |-> PyNone] >>]] >>]],
                                            [k |-> "op", v |-> [t |-> "ast", type |-> "Add", attrs |-> << >>, fields |-> << >>]],
                                            [k |-> "right", v |-> [t |-> "ast", type |-> "Constant", attrs |-> Loc(1, 18, 1, 19), fields |-> <<
                                              [k |-> "value", v |-> PyInt(1)],
                                              [k |-> "kind", v |-> PyNone] >>]] >>]],
                                          [k |-> "op", v |-> [t |-> "ast", type |-> "Add", attrs |-> << >>, fields |-> << >>]],
                                          [k |-> "right", v |-> [t |-> "ast", type |-> "Constant", attrs |-> Loc(1, 20, 1, 21), fields |-> <<
                                            [k |-> "value", v |-> PyInt(1)],
                                            [k |-> "kind", v |-> PyNone] >>]] >>]],
                                        [k |-> "op", v |-> [t |-> "ast", type |-> "Add", attrs |-> << >>, fields |-> << >>]],
                                        [k |-> "right", v |-> [t |-> "ast", type |-> "Constant", attrs |-> Loc(1, 22, 1, 23), fields |-> <<
                                          [k |-> "value", v |-> PyInt(1)],
                                          [k |-> "kind", v |-> PyNone] >>]] >>]],
                                      [k |-> "op", v |-> [t |-> "ast", type |-> "Add", attrs |-> << >>, fields |-> << >>]],
                                      [k |-> "right", v |-> [t |-> "ast", type |-> "Constant", attrs |-> Loc(1, 24, 1, 25), fields |-> <<
                                        [k |-> "value", v |-> PyInt(1)],
                                        [k |-> "kind", v |-> PyNone] >>]] >>]],
                                    [k |-> "op", v |-> [t |-> "ast", type |-> "Add", attrs |-> << >>, fields |-> << >>]],
                                    [k |-> "right", v |-> [t |-> "ast", type |-> "Constant", attrs |-> Loc(1, 26, 1, 27), fields |-> <<
                                      [k |-> "value", v |-> PyInt(1)],
                                      [k |-> "kind", v |-> PyNone] >>]] >>]],
                                  [k |-> "op", v |-> [t |-> "ast", type |-> "Add", attrs |-> << >>, fields |-> << >>]],
                                  [k |-> "right", v |-> [t |-> "ast", type |-> "Constant", attrs |-> Loc(1, 28, 1, 29), fields |-> <<
                                    [k |-> "value", v |-> PyInt(1)],
                                    [k |-> "kind", v |-> PyNone] >>]] >>]],
                                [k |-> "op", v |-> [t |-> "ast", type |-> "Add", attrs |-> << >>, fields |-> << >>]],
                                [k |-> "right", v |-> [t |-> "ast", type |-> "Constant", attrs |-> Loc(1, 30, 1, 31), fields |-> <<
                                  [k |-> "value", v |-> PyInt(1)],
                                  [k |-> "kind", v |-> PyNone] >>]] >>]],
                              [k |-> "op", v |-> [t |-> "ast", type |-> "Add", attrs |-> << >>, fields |-> << >>]],
                              [k |-> "right", v |-> [t |-> "ast", type |-> "Constant", attrs |-> Loc(1, 32, 1, 33), fields |-> <<
                                [k |-> "value", v |-> PyInt(1)],
                                [k |-> "kind", v |-> PyNone] >>]] >>]],
                            [k |-> "op", v |-> [t |-> "ast", type |-> "Add", attrs |-> << >>, fields |-> << >>]],
                            [k |-> "right", v |-> [t |-> "ast", type |-> "Constant", attrs |-> Loc(1, 34, 1, 35), fields |-> <<
                              [k |-> "value", v |-> PyInt(1)],
                              [k |-> "kind", v |-> PyNone] >>]] >>]],
                          [k |-> "op", v |-> [t |-> "ast", type |-> "Add", attrs |-> << >>, fields |-> << >>]],
                          [k |-> "right", v |-> [t |-> "ast", type |-> "Constant", attrs |-> Loc(1, 36, 1, 37), fields |-> <<
                            [k |-> "value", v |-> PyInt(1)],
                            [k |-> "kind", v |-> PyNone] >>]] >>]],
                        [k |-> "op", v |-> [t |-> "ast", type |-> "Add", attrs |-> << >>, fields |-> << >>]],
                        [k |-> "right", v |-> [t |-> "ast", type |-> "Constant", attrs |-> Loc(1, 38, 1, 39), fields |-> <<
                          [k |-> "value", v |-> PyInt(1)],
                          [k |-> "kind", v |-> PyNone] >>]] >>]],
                      [k |-> "op", v |-> [t |-> "ast", type |-> "Add", attrs |-> << >>, fields |-> << >>]],
                      [k |-> "right", v |-> [t |-> "ast", type |-> "Constant", attrs |-> Loc(1, 40, 1, 41), fields |-> <<
                        [k |-> "value", v |-> PyInt(1)],
                        [k |-> "kind", v |-> PyNone] >>]] >>]],
                    [k |-> "op", v |-> [t |-> "ast", type |-> "Add", attrs |-> << >>, fields |-> << >>]],
                    [k |-> "right", v |-> [t |-> "ast", type |-> "Constant", attrs |-> Loc(1, 42, 1, 43), fields |-> <<
                      [k |-> "value", v |-> PyInt(1)],
                      [k |-> "kind", v |-> PyNone] >>]] >>]],
                  [k |-> "type_comment", v |-> PyNone] >>] >>]],
              [k |-> "type_ignores", v |-> [t |-> "list", v |-> << >>]] >>]
      [] src = SrcMixedDict ->
            AstNode("Module", << >>,
                    << Item("body", PyList(<< AstNode("Assign", Loc(1, 0, 1, 17),
                                                     << Item("targets", PyList(<< AstNode("Name", Loc(1, 0, 1, 1),
                                                                                         << Item("id", PyStr("d")),
                                                                                            Item("ctx", AstNode("Store", << >>,
                                                                                                                << >>)) >>) >>)),
                                                        Item("value", AstNode("Dict", Loc(1, 4, 1, 17),
                                                                              << Item("keys", PyList(<< PyNone,
                                                                                                       AstNode("Constant", Loc(1, 10, 1, 13),
                                                                                                               << Item("value", PyStr("k")),
                                                                                                                  Item("kind", PyNone) >>) >>)),
                                                                                 Item("values", PyList(<< AstNode("Name", Loc(1, 7, 1, 8),
                                                                                                                 << Item("id", PyStr("a")),
                                                                                                                    Item("ctx", AstNode("Load", << >>,
                                                                                                                                        << >>)) >>),
                                                                                                         AstNode("Constant", Loc(1, 15, 1, 16),
                                                                                                                 << Item("value", PyInt(1)),
                                                                                                                    Item("kind", PyNone) >>) >>)) >>)),
                                                        Item("type_comment", PyNone) >>) >>)),
                       Item("type_ignores", PyList(<< >>)) >>)

(* A file name holding a NUL character (JSON "a\u0000b") *)
NulPath == "a\\0b"

(* The first line of a host file as the parser's error report decodes it: *)
(* the width in bytes of each of its characters (an undecodable byte      *)
(* becomes U+FFFD, three bytes); empty when the file cannot be read or    *)
(* has no text.                                                           *)
FirstLineWidths(path) ==
    CASE path = "a.py" -> << 1, 1, 1, 1, 1, 1 >>
      [] path = "imp.py" -> << 1, 1, 1, 1, 1, 1, 1, 1, 1, 1 >>
      [] path = "syn.py" -> << 1, 1, 1, 1, 1, 1, 1, 1 >>
      [] path = "lit.py" -> << 1, 1, 1, 1, 1, 1, 1, 1, 1 >>
      [] path = "bad.py" -> << 3, 3 >>
      [] OTHER -> << >>

(* The characters of a line that end within its first n bytes *)
RECURSIVE CharsWithin(_, _, _)
CharsWithin(widths, i, n) ==
    IF i > Len(widths) \/ widths[i] > n THEN 0
    ELSE 1 + CharsWithin(widths, i + 1, n - widths[i])

(* The offset the parser reports for an error at byte column col: on a    *)
(* syntax error it opens the file named by filename and, when that file   *)
(* has a first line, counts the column in that line; otherwise it counts  *)
(* in the source text it was given (ASCII in this model).                 *)
SyntaxOffset(col, path) ==
    IF FirstLineWidths(path) = << >> THEN col + 1
    ELSE CharsWithin(FirstLineWidths(path), 1, col) + 1

(* ast.parse(content, filename=file_path) *)
ast_parse(content, file_path) ==
    IF file_path.t # "str"
    THEN Raise("TypeError", "expected str, bytes or os.PathLike object, not " \o TypeName(file_path))
    ELSE IF file_path.v = NulPath
    THEN Raise("ValueError", "embedded null character")
    ELSE IF content.t # "str"
    THEN Raise("TypeError", "compile() arg 1 must be a string, bytes or AST object")
    ELSE IF content.v = SrcSyntax
    THEN [raised |-> TRUE, exc |-> "SyntaxError",
          msg |-> "invalid syntax (" \o file_path.v \o ", line 1)",
          lineno |-> PyInt(1), offset |-> PyInt(SyntaxOffset(6, file_path.v))]
    ELSE Return(TreeOf(content.v))

(* The host reads made inside ast.parse: a syntax error makes the parser  *)
(* open the file named by filename to fetch the text of the error line.   *)
ErrorLineRead(r, file_path) ==
    IF r.raised /\ r.exc = "SyntaxError" THEN << [fn |-> "open", arg |-> file_path] >> ELSE << >>

(* ---------------------------------------------------------------------- *)
(* node_to_dict                                                           *)
(* ---------------------------------------------------------------------- *)
HasAttr(node, a) == \E i \in 1..Len(node.attrs) : node.attrs[i].k = a

GetAttr(node, a) == node.attrs[CHOOSE i \in 1..Len(node.attrs) : node.attrs[i].k = a].v

LocationAttrs == << "lineno", "col_offset", "end_lineno", "end_col_offset" >>

(* if hasattr(node, a): result[a] = getattr(node, a), for the four        *)
(* location attributes in the order of the code                           *)
RECURSIVE CopyLocation(_, _)
(* the four assignments without their hasattr tests, a missing attribute  *)
(* read as getattr(node, a, 0)                                            *)
CopyLocation_Defaulted(node, i) ==
    IF i > Len(LocationAttrs) THEN <<>>
    ELSE << Item(LocationAttrs[i],
                 IF HasAttr(node, LocationAttrs[i])
                 THEN GetAttr(node, LocationAttrs[i]) ELSE PyInt(0)) >>
         \o CopyLocation(node, i + 1)

CopyLocation(node, i) ==
    IF i > Len(LocationAttrs) THEN <<>>
    ELSE (IF HasAttr(node, LocationAttrs[i])
          THEN << Item(LocationAttrs[i], GetAttr(node, LocationAttrs[i])) >>
          ELSE <<>>) \o CopyLocation(node, i + 1)

(* for field, value in ast.iter_fields(node): result[field] = ...         *)
(* (no grammar field is named _type or like a location attribute, so      *)
(* every assignment adds a new key at the end of the dict)                *)
RECURSIVE node_to_dict(_)
(* the loop of line 29 over the fields in the reverse of their declared order *)
SerializeFields_Reversed(fields) ==
    [i \in 1..Len(fields) |->
        LET value == fields[Len(fields) + 1 - i].v
        IN  Item(fields[Len(fields) + 1 - i].k,
                 IF value.t = "list"
                 THEN PyList([j \in 1..Len(value.v) |-> node_to_dict(value.v[j])])
                 ELSE IF value.t = "ast"
                 THEN node_to_dict(value)
                 ELSE value)]

SerializeFields(fields) ==
    [i \in 1..Len(fields) |->
        LET value == fields[i].v
        IN  Item(fields[i].k,
                 IF value.t = "list"
                 THEN PyList([j \in 1..Len(value.v) |-> node_to_dict(value.v[j])])
                 ELSE IF value.t = "ast"
                 THEN node_to_dict(value)
                 ELSE value)]

node_to_dict(node) ==
    IF node.t # "ast" THEN node
    ELSE PyDict(<< Item("_type", PyStr(node.type)) >>
                  \o CopyLocation(node, 1)
                  \o SerializeFields(node.fields))

(* ---------------------------------------------------------------------- *)
(* extract_imports_from_ast                                               *)
(* ---------------------------------------------------------------------- *)
HasField(node, f) == \E i \in 1..Len(node.fields) : node.fields[i].k = f

GetField(node, f) == node.fields[CHOOSE i \in 1..Len(node.fields) : node.fields[i].k = f].v

(* getattr(n, name, default) over a node's fields and attributes *)
getattr(node, name, default) ==
    IF HasField(node, name) THEN GetField(node, name)
    ELSE IF HasAttr(node, name) THEN GetAttr(node, name)
    ELSE default

AliasNames(n) ==
    LET names == GetField(n, "names").v
    IN  PyList([i \in 1..Len(names) |->
                  PyDict(<< Item("name", GetField(names[i], "name")),
                            Item("asname", GetField(names[i], "asname")) >>)])

visit_Import(n) ==
    PyDict(<< Item("type", PyStr("Import")),
              Item("line", getattr(n, "lineno", PyInt(0))),
              Item("column", getattr(n, "col_offset", PyInt(0))),
              Item("names", AliasNames(n)) >>)

(* visit_ImportFrom reading the level under a name the node does not have *)
visit_ImportFrom_DefaultLevel(n) ==
    PyDict(<< Item("type", PyStr("ImportFrom")),
              Item("module", getattr(n, "module", PyNone)),
              Item("level", getattr(n, "lvl", PyInt(0))),
              Item("line", getattr(n, "lineno", PyInt(0))),
              Item("column", getattr(n, "col_offset", PyInt(0))),
              Item("names", AliasNames(n)) >>)

visit_ImportFrom(n) ==
    PyDict(<< Item("type", PyStr("ImportFrom")),
              Item("module", getattr(n, "module", PyNone)),
              Item("level", getattr(n, "level", PyInt(0))),
              Item("line", getattr(n, "lineno", PyInt(0))),
              Item("column", getattr(n, "col_offset", PyInt(0))),
              Item("names", AliasNames(n)) >>)

RECURSIVE visit(_), VisitFields(_, _), VisitItems(_, _)
(* generic_visit walking a statement list from its last item to its first *)
VisitItems_Backwards(items, j) ==
    IF j > Len(items) THEN <<>>
    ELSE VisitItems(items, j + 1) \o (IF items[j].t = "ast" THEN visit(items[j]) ELSE <<>>)

VisitItems(items, j) ==
    IF j > Len(items) THEN <<>>
    ELSE (IF items[j].t = "ast" THEN visit(items[j]) ELSE <<>>) \o VisitItems(items, j + 1)

VisitFields(fields, i) ==
    IF i > Len(fields) THEN <<>>
    ELSE LET value == fields[i].v
         IN  (IF value.t = "list" THEN VisitItems(value.v, 1)
              ELSE IF value.t = "ast" THEN visit(value)
              ELSE <<>>) \o VisitFields(fields, i + 1)

visit(node) ==
    IF node.type = "Import" THEN << visit_Import(node) >>
    ELSE IF node.type = "ImportFrom" THEN << visit_ImportFrom(node) >>
    ELSE VisitFields(node.fields, 1)

(* a visitor that looks only at the statements of the module body, without *)
(* descending into them                                                    *)
extract_imports_from_ast_TopLevel(node) ==
    LET top == SelectSeq(GetField(node, "body").v,
                         LAMBDA n : n.type \in {"Import", "ImportFrom"})
    IN  PyList([i \in 1..Len(top) |-> visit(top[i])[1]])

extract_imports_from_ast(node) == PyList(visit(node))

(* ---------------------------------------------------------------------- *)
(* The interpreter's recursion limit                                      *)
(* Both traversals recurse once per level of the tree and the interpreter *)
(* raises RecursionError when the frame stack passes                      *)
(* sys.getrecursionlimit(). The host's limit is 1000; the model keeps the *)
(* frame arithmetic of the two traversals and scales the limit, and the   *)
(* long expressions that reach it, down together.                         *)
(* ---------------------------------------------------------------------- *)
RecursionLimit == 24

(* <module>, main, run_server: the frames below a command's function (the *)
(* one more frame of parse_file around parse_content is not counted)      *)
CallerFrames == 3

MaxOf(S) == CHOOSE m \in S : \A x \in S : x <= m

(* Frames node_to_dict stacks for a value: its own, then one more for     *)
(* ast.iter_fields, for the list comprehension of a list field and for    *)
(* each nested call                                                       *)
RECURSIVE NodeToDictFrames(_)
NodeToDictFieldFrames(value) ==
    IF value.t = "list"
    THEN 1 + MaxOf({0} \cup { NodeToDictFrames(value.v[j]) : j \in 1..Len(value.v) })
    ELSE IF value.t = "ast" THEN NodeToDictFrames(value)
    ELSE 0

NodeToDictFrames(node) ==
    IF node.t # "ast" THEN 1
    ELSE 1 + MaxOf({1} \cup { NodeToDictFieldFrames(node.fields[i].v) :
                                 i \in 1..Len(node.fields) })

(* Frames NodeVisitor.visit stacks for a node: visit, then visit_Import   *)
(* or visit_ImportFrom with its list comprehension, or generic_visit with *)
(* ast.iter_fields and the visit of each child node (a Constant reaches   *)
(* generic_visit through NodeVisitor.visit_Constant)                      *)
RECURSIVE VisitFrames(_)
VisitFieldFrames(value) ==
    IF value.t = "list"
    THEN MaxOf({0} \cup { VisitFrames(value.v[j]) :
                             j \in { k \in 1..Len(value.v) : value.v[k].t = "ast" } })
    ELSE IF value.t = "ast" THEN VisitFrames(value)
    ELSE 0

VisitFrames(node) ==
    IF node.type \in {"Import", "ImportFrom"} THEN 3
    ELSE (IF node.type = "Constant" THEN 3 ELSE 2)
            + MaxOf({1} \cup { VisitFieldFrames(node.fields[i].v) :
                                 i \in 1..Len(node.fields) })

RecursionErrorResult ==
    PyDict(<< Item("success", PyBool(FALSE)), Item("error", PyStr("RecursionError")),
              Item("message", PyStr("maximum recursion depth exceeded")),
              Item("traceback", PyStr("Traceback (most recent call last): ...")) >>)

(* ---------------------------------------------------------------------- *)
(* Host environment: files and importable modules                         *)
(* ---------------------------------------------------------------------- *)
Traceback == PyStr("Traceback (most recent call last): ...")

IsOSError(exc) == exc \in {"FileNotFoundError", "IsADirectoryError", "PermissionError"}

(* Exception subclasses; SystemExit and KeyboardInterrupt are not *)
IsException(exc) == exc \notin {"SystemExit", "KeyboardInterrupt"}

(* open(file_path, 'r', encoding='utf-8') followed by handle.read() *)
open_read(file_path) ==
    IF file_path.t # "str"
    THEN Raise("TypeError", "expected str, bytes or os.PathLike object, not " \o TypeName(file_path))
    ELSE CASE file_path.v = NulPath -> Raise("ValueError", "embedded null byte")
           [] file_path.v = "a.py" -> Return(PyStr(SrcAssign))
           [] file_path.v = "imp.py" -> Return(PyStr(SrcImport))
           [] file_path.v = "syn.py" -> Return(PyStr(SrcSyntax))
           [] file_path.v = "lit.py" -> Return(PyStr(SrcBytes))
           [] file_path.v = "bad.py" ->
                Raise("UnicodeDecodeError", "'utf-8' codec can't decode byte 0xff in position 0: invalid start byte")
           [] file_path.v = "pkg" -> Raise("IsADirectoryError", "[Errno 21] Is a directory: 'pkg'")
           [] file_path.v = "secret.py" -> Raise("PermissionError", "[Errno 13] Permission denied: 'secret.py'")
           [] OTHER ->
                Raise("FileNotFoundError", "[Errno 2] No such file or directory: '" \o file_path.v \o "'")

(* Modules the host can locate, with their __file__ (None for built-ins) *)
ModuleFile(name) ==
    CASE name = "sys" -> PyNone
      [] name = "gc" -> PyNone
      [] name = "json" -> PyStr("/usr/lib/python3/json/__init__.py")
      [] name = "colorsys" -> PyStr("/usr/lib/python3/colorsys.py")

Importable == {"sys", "gc", "json", "colorsys"}

(* sys.modules when run_server starts: the helper's own imports *)
PreloadedModules == {"sys", "json"}

(* import_module that leaves a module whose code raised in the cache *)
import_module_KeepsFailed(module_name, modules) ==
    IF module_name.t # "str"
    THEN [res |-> Raise("AttributeError", "'" \o TypeName(module_name) \o "' object has no attribute 'startswith'"),
          modules |-> modules]
    ELSE IF module_name.v \in modules
    THEN [res |-> Return(IF module_name.v \in Importable THEN ModuleFile(module_name.v) ELSE PyNone),
          modules |-> modules]
    ELSE IF module_name.v \in Importable
    THEN [res |-> Return(ModuleFile(module_name.v)), modules |-> modules \cup {module_name.v}]
    ELSE CASE module_name.v = "boom" ->
                [res |-> Raise("RuntimeError", "boom"), modules |-> modules \cup {"boom"}]
           [] module_name.v = "quitmod" ->
                [res |-> Raise("SystemExit", "3"), modules |-> modules]
           [] module_name.v = "intr" ->
                [res |-> Raise("KeyboardInterrupt", ""), modules |-> modules]
           [] module_name.v = "needy" ->
                [res |-> Raise("ModuleNotFoundError", "No module named 'nope_dep'"), modules |-> modules]
           [] module_name.v = "..x" ->
                [res |-> Raise("TypeError", "the 'package' argument is required to perform a relative import for '..x'"),
                 modules |-> modules]
           [] OTHER ->
                [res |-> Raise("ModuleNotFoundError", "No module named '" \o module_name.v \o "'"),
                 modules |-> modules]

(* importlib.import_module(module_name) with the host cache sys.modules:   *)
(* a cached module is returned without running its code again; a           *)
(* successful import is added to the cache; "boom", "needy", "quitmod"     *)
(* and "intr" are modules on the path whose top-level code raises (needy   *)
(* imports a module that does not exist); a name with a leading dot is a   *)
(* relative import, refused without a package.                             *)
import_module(module_name, modules) ==
    IF module_name.t # "str"
    THEN [res |-> Raise("AttributeError", "'" \o TypeName(module_name) \o "' object has no attribute 'startswith'"),
          modules |-> modules]
    ELSE IF module_name.v \in modules
    THEN [res |-> Return(ModuleFile(module_name.v)), modules |-> modules]
    ELSE IF module_name.v \in Importable
    THEN [res |-> Return(ModuleFile(module_name.v)), modules |-> modules \cup {module_name.v}]
    ELSE CASE module_name.v = "boom" ->
                [res |-> Raise("RuntimeError", "boom"), modules |-> modules]
           [] module_name.v = "quitmod" ->
                [res |-> Raise("SystemExit", "3"), modules |-> modules]
           [] module_name.v = "intr" ->
                [res |-> Raise("KeyboardInterrupt", ""), modules |-> modules]
           [] module_name.v = "needy" ->
                [res |-> Raise("ModuleNotFoundError", "No module named 'nope_dep'"), modules |-> modules]
           [] module_name.v = "..x" ->
                [res |-> Raise("TypeError", "the 'package' argument is required to perform a relative import for '..x'"),
                 modules |-> modules]
           [] OTHER ->
                [res |-> Raise("ModuleNotFoundError", "No module named '" \o module_name.v \o "'"),
                 modules |-> modules]

(* ---------------------------------------------------------------------- *)
(* parse_content, parse_file, extract_imports, resolve_module             *)
(* Each returns its outcome (res) and the host calls it made (calls).     *)
(* ---------------------------------------------------------------------- *)
Call(fn, arg) == [fn |-> fn, arg |-> arg]

SyntaxErrorResult(e) ==
    PyDict(<< Item("success", PyBool(FALSE)), Item("error", PyStr("SyntaxError")),
              Item("message", PyStr(e.msg)), Item("lineno", e.lineno),
              Item("offset", e.offset) >>)

ExceptionResult(e) ==
    PyDict(<< Item("success", PyBool(FALSE)), Item("error", PyStr(e.exc)),
              Item("message", PyStr(e.msg)), Item("traceback", Traceback) >>)

parse_content(content, file_path) ==
    LET r == ast_parse(content, file_path)
    IN  [calls |-> << Call("ast.parse", content) >> \o ErrorLineRead(r, file_path),
         res |-> Return(IF ~r.raised
                        THEN IF CallerFrames + 1 + NodeToDictFrames(r.value) > RecursionLimit
                             THEN RecursionErrorResult
                             ELSE PyDict(<< Item("success", PyBool(TRUE)),
                                            Item("ast", node_to_dict(r.value)) >>)
                        ELSE IF r.exc = "SyntaxError"
                        THEN SyntaxErrorResult(r)
                        ELSE ExceptionResult(r))]

(* parse_file that returns the file text whatever the parse outcome *)
parse_file_AlwaysContent(file_path) ==
    LET r == open_read(file_path)
    IN  IF r.raised
        THEN [calls |-> << Call("open", file_path) >>,
              res |-> IF IsOSError(r.exc)
                      THEN Return(PyDict(<< Item("success", PyBool(FALSE)),
                                            Item("error", PyStr(r.exc)),
                                            Item("message", PyStr(r.msg)) >>))
                      ELSE r]
        ELSE LET p == parse_content(r.value, file_path)
                 result == p.res.value
             IN  [calls |-> << Call("open", file_path) >> \o p.calls,
                  res |-> Return(DictSet(result, "content", r.value))]

parse_file(file_path) ==
    LET r == open_read(file_path)
    IN  IF r.raised
        THEN [calls |-> << Call("open", file_path) >>,
              res |-> IF IsOSError(r.exc)
                      THEN Return(PyDict(<< Item("success", PyBool(FALSE)),
                                            Item("error", PyStr(r.exc)),
                                            Item("message", PyStr(r.msg)) >>))
                      ELSE r]
        ELSE LET p == parse_content(r.value, file_path)
                 result == p.res.value
             IN  [calls |-> << Call("open", file_path) >> \o p.calls,
                  res |-> Return(IF Truthy(DictGet(result, "success", PyNone))
                                 THEN DictSet(result, "content", r.value)
                                 ELSE result)]

(* extract_imports that tests `if not content` in place of line 110 *)
extract_imports_Falsy(file_path, content) ==
    LET src == IF ~Truthy(content) THEN open_read(file_path) ELSE Return(content)
        opened == IF ~Truthy(content) THEN << Call("open", file_path) >> ELSE <<>>
    IN  IF src.raised
        THEN [calls |-> opened, res |-> Return(ExceptionResult(src))]
        ELSE LET r == ast_parse(src.value, file_path)
             IN  [calls |-> opened \o << Call("ast.parse", src.value) >>
                                \o ErrorLineRead(r, file_path),
                  res |-> Return(IF ~r.raised
                                 THEN IF CallerFrames + 2 + VisitFrames(r.value) > RecursionLimit
                                      THEN RecursionErrorResult
                                      ELSE PyDict(<< Item("success", PyBool(TRUE)),
                                                     Item("imports", extract_imports_from_ast(r.value)) >>)
                                 ELSE IF r.exc = "SyntaxError"
                                 THEN SyntaxErrorResult(r)
                                 ELSE ExceptionResult(r))]

extract_imports(file_path, content) ==
    LET src == IF content = PyNone THEN open_read(file_path) ELSE Return(content)
        opened == IF content = PyNone THEN << Call("open", file_path) >> ELSE <<>>
    IN  IF src.raised
        THEN [calls |-> opened, res |-> Return(ExceptionResult(src))]
        ELSE LET r == ast_parse(src.value, file_path)
             IN  [calls |-> opened \o << Call("ast.parse", src.value) >>
                                \o ErrorLineRead(r, file_path),
                  res |-> Return(IF ~r.raised
                                 THEN IF CallerFrames + 2 + VisitFrames(r.value) > RecursionLimit
                                      THEN RecursionErrorResult
                                      ELSE PyDict(<< Item("success", PyBool(TRUE)),
                                                     Item("imports", extract_imports_from_ast(r.value)) >>)
                                 ELSE IF r.exc = "SyntaxError"
                                 THEN SyntaxErrorResult(r)
                                 ELSE ExceptionResult(r))]

(* resolve_module that returns __file__ as it is, None included *)
resolve_module_NoSentinel(module_name, modules) ==
    LET h == import_module(module_name, modules)
        r == h.res
    IN  [calls |-> << Call("import_module", module_name) >>,
         modules |-> h.modules,
         res |-> IF ~r.raised
                 THEN Return(PyDict(<< Item("success", PyBool(TRUE)),
                                       Item("resolved_path", r.value) >>))
                 ELSE IF r.exc = "ModuleNotFoundError"
                 THEN Return(PyDict(<< Item("success", PyBool(FALSE)),
                                       Item("error", PyStr("ModuleNotFound")),
                                       Item("message", PyStr(r.msg)) >>))
                 ELSE IF IsException(r.exc)
                 THEN Return(ExceptionResult(r))
                 ELSE r]

resolve_module(module_name, modules) ==
    LET h == import_module(module_name, modules)
        r == h.res
    IN  [calls |-> << Call("import_module", module_name) >>,
         modules |-> h.modules,
         res |-> IF ~r.raised
                 THEN Return(PyDict(<< Item("success", PyBool(TRUE)),
                                       Item("resolved_path",
                                            IF r.value = PyNone THEN PyStr("builtin") ELSE r.value) >>))
                 ELSE IF r.exc = "ModuleNotFoundError"
                 THEN Return(PyDict(<< Item("success", PyBool(FALSE)),
                                       Item("error", PyStr("ModuleNotFound")),
                                       Item("message", PyStr(r.msg)) >>))
                 ELSE IF IsException(r.exc)
                 THEN Return(ExceptionResult(r))
                 ELSE r]

(* ---------------------------------------------------------------------- *)
(* Input lines                                                            *)
(* ---------------------------------------------------------------------- *)
BlankLine == [kind |-> "blank", value |-> PyNone]
GarbageLine == [kind |-> "garbage", value |-> PyNone]
JsonLine(val) == [kind |-> "json", value |-> val]

(* line.strip() is empty *)
IsBlank(line) == line.kind = "blank"

(* json.loads(line): a JSON text decodes to its value, other text raises  *)
(* JSONDecodeError.                                                       *)
json_loads(line) ==
    IF line.kind = "json"
    THEN Return(line.value)
    ELSE Raise("JSONDecodeError", "Expecting value")

Req(id, rest) == JsonLine(PyDict(<< Item("id", id) >> \o rest))
ReqNoId(rest) == JsonLine(PyDict(rest))

Cmd(c) == Item("command", PyStr(c))
Content(c) == Item("content", PyStr(c))
FilePath(f) == Item("file_path", PyStr(f))
ModuleName(m) == Item("module_name", PyStr(m))

(* ---------------------------------------------------------------------- *)
(* run_server: the request dispatcher (lines 165-190)                     *)
(* ---------------------------------------------------------------------- *)
MissingModuleResponse ==
    PyDict(<< Item("success", PyBool(FALSE)), Item("error", PyStr("MissingModule")),
              Item("message", PyStr("module_name required")) >>)

(* ResolveBranch without the module_name guard of line 178 *)
ResolveBranch_NoCheck(module_name, modules) == resolve_module(module_name, modules)

ResolveBranch(module_name, modules) ==
    IF ~Truthy(module_name)
    THEN [calls |-> <<>>, modules |-> modules, res |-> Return(MissingModuleResponse)]
    ELSE resolve_module(module_name, modules)

ShutdownResponse ==
    PyDict(<< Item("success", PyBool(TRUE)), Item("shutdown", PyBool(TRUE)) >>)

UnknownCommandResponse(command) ==
    PyDict(<< Item("success", PyBool(FALSE)), Item("error", PyStr("UnknownCommand")),
              Item("message", command) >>)

(* Branch with a default command in place of the final else of line 189 *)
Branch_Default(command) ==
    IF command \in {PyStr("parse_content"), PyStr("parse_file"), PyStr("extract_imports"),
                    PyStr("resolve_module"), PyStr("shutdown")}
    THEN command.v
    ELSE "parse_content"

(* The branch taken for a command value *)
Branch(command) ==
    IF command \in {PyStr("parse_content"), PyStr("parse_file"), PyStr("extract_imports"),
                    PyStr("resolve_module"), PyStr("shutdown")}
    THEN command.v
    ELSE "unknown"

Dispatch(msg, modules) ==
    IF msg.t # "dict"
    THEN [calls |-> <<>>, modules |-> modules, branch |-> "none", request_id |-> PyNone,
          res |-> Raise("AttributeError", "'" \o TypeName(msg) \o "' object has no attribute 'get'")]
    ELSE LET request_id == DictGet(msg, "id", PyNone)
             command == DictGet(msg, "command", PyNone)
             file_path == DictGet(msg, "file_path", PyStr("<memory>"))
             content == DictGet(msg, "content", PyNone)
             module_name == DictGet(msg, "module_name", PyNone)
             branch == Branch(command)
             out == CASE branch = "parse_content" ->
                            parse_content(IF Truthy(content) THEN content ELSE PyStr(""), file_path)
                      [] branch = "parse_file" -> parse_file(file_path)
                      [] branch = "extract_imports" -> extract_imports(file_path, content)
                      [] branch = "resolve_module" -> ResolveBranch(module_name, modules)
                      [] branch = "shutdown" -> [calls |-> <<>>, res |-> Return(ShutdownResponse)]
                      [] OTHER -> [calls |-> <<>>, res |-> Return(UnknownCommandResponse(command))]
         IN  [calls |-> out.calls,
              modules |-> IF branch = "resolve_module" THEN out.modules ELSE modules,
              branch |-> branch, request_id |-> request_id, res |-> out.res]

(* if request_id is not None: response["id"] = request_id *)
AttachId(resp, request_id) ==
    IF request_id # PyNone THEN DictSet(resp, "id", request_id) ELSE resp

InvalidJSONResponse ==
    PyDict(<< Item("success", PyBool(FALSE)), Item("error", PyStr("InvalidJSON")) >>)

(* ---------------------------------------------------------------------- *)
(* Input streams                                                          *)
(* ---------------------------------------------------------------------- *)
CoreLines ==
    { BlankLine, GarbageLine,
      JsonLine(PyList(<< PyInt(1) >>)),
      Req(PyInt(1), << Cmd("parse_content"), Content(SrcAssign), FilePath("a") >>),
      Req(PyInt(2), << Cmd("parse_content"), Content(SrcSyntax) >>),
      Req(PyInt(3), << Cmd("parse_content"), Content(SrcBytes) >>),
      Req(PyInt(5), << Cmd("parse_file"), FilePath("a.py") >>),
      Req(PyInt(6), << Cmd("parse_file"), FilePath("bad.py") >>),
      Req(PyInt(8), << Cmd("extract_imports"), Content(SrcImport) >>),
      Req(PyInt(10), << Cmd("resolve_module") >>),
      Req(PyInt(11), << Cmd("resolve_module"), ModuleName("colorsys") >>),
      Req(PyInt(13), << Cmd("resolve_module"), ModuleName("quitmod") >>),
      Req(PyInt(14), << Cmd("shutdown") >>),
      ReqNoId(<< Cmd("shutdown") >>),
      Req(PyInt(15), << Cmd("nope") >>),
      Req(PyInt(16), << Item("command", PyList(<< PyStr("parse_content") >>)) >>),
      Req(PyNone, << >>) }

ShutdownLines ==
    { BlankLine, GarbageLine,
      JsonLine(PyList(<< PyInt(1) >>)),
      Req(PyInt(2), << Cmd("parse_content"), Content(SrcSyntax) >>),
      Req(PyInt(11), << Cmd("resolve_module"), ModuleName("colorsys") >>),
      Req(PyInt(14), << Cmd("shutdown") >>),
      Req(PyNone, << Cmd("shutdown") >>),
      ReqNoId(<< Cmd("shutdown"), Content(SrcSyntax) >>),
      Req(PyInt(15), << Cmd("nope") >>) }

Ids ==
    { PyNone, PyInt(0), PyInt(7), PyStr(""), PyStr("a"), PyBool(FALSE),
      PyList(<< PyInt(1) >>), PyDict(<< Item("k", PyInt(1)) >>) }

IdBodies ==
    { << Cmd("nope") >>,
      << Cmd("shutdown") >>,
      << Cmd("parse_content"), Content(SrcAssign) >>,
      << Cmd("resolve_module") >> }

IdLines ==
    { BlankLine, GarbageLine }
      \cup { Req(id, body) : id \in Ids, body \in IdBodies }
      \cup { ReqNoId(body) : body \in IdBodies }

FileLines ==
    { BlankLine, GarbageLine,
      Req(PyInt(20), << Cmd("parse_content") >>),
      Req(PyInt(21), << Cmd("parse_content"), Content(SrcEmpty) >>),
      Req(PyInt(22), << Cmd("parse_file") >>),
      Req(PyInt(23), << Cmd("parse_file"), FilePath("a.py") >>),
      Req(PyInt(24), << Cmd("parse_file"), FilePath("syn.py") >>),
      Req(PyInt(25), << Cmd("parse_file"), FilePath("lit.py") >>),
      Req(PyInt(26), << Cmd("parse_file"), FilePath("bad.py") >>),
      Req(PyInt(27), << Cmd("parse_file"), FilePath("pkg") >>),
      Req(PyInt(28), << Cmd("parse_file"), FilePath("secret.py") >>),
      Req(PyInt(29), << Cmd("parse_file"), FilePath("missing.py") >>),
      Req(PyInt(30), << Cmd("parse_file"), Item("file_path", PyList(<< PyInt(1) >>)) >>),
      Req(PyInt(31), << Cmd("extract_imports"), Content(SrcEmpty), FilePath("imp.py") >>),
      Req(PyInt(32), << Cmd("extract_imports"), Content(SrcImport), FilePath("bad.py") >>),
      Req(PyInt(33), << Cmd("extract_imports"), FilePath("imp.py") >>),
      Req(PyInt(34), << Cmd("extract_imports"), FilePath("bad.py") >>),
      Req(PyInt(35), << Cmd("extract_imports"), Item("content", PyInt(5)), FilePath("imp.py") >>),
      Req(PyInt(36), << Cmd("extract_imports") >>),
      Req(PyInt(38), << Cmd("extract_imports"), Item("content", PyNone), FilePath("imp.py") >>),
      Req(PyInt(39), << Cmd("extract_imports"), Content(SrcSyntax), FilePath("bad.py") >>),
      Req(PyInt(37), << Cmd("shutdown") >>) }

TreeSources ==
    { SrcEmpty, SrcAssign, SrcBytes, SrcImport, SrcNested, SrcTwoImports,
      SrcDeepImports, SrcMixedDict, SrcSyntax }

TreeLines ==
    { BlankLine, GarbageLine, Req(PyInt(40), << Cmd("shutdown") >>) }
      \cup { Req(PyInt(41), << Cmd("parse_content"), Content(src) >>) : src \in TreeSources }
      \cup { Req(PyInt(42), << Cmd("extract_imports"), Content(src) >>) : src \in TreeSources }

ModuleLines ==
    { BlankLine, GarbageLine, Req(PyInt(50), << Cmd("shutdown") >>),
      Req(PyInt(51), << Cmd("resolve_module") >>),
      Req(PyInt(52), << Cmd("resolve_module"), Item("module_name", PyInt(5)) >>),
      Req(PyInt(53), << Cmd("resolve_module"), ModuleName("colorsys") >>),
      Req(PyInt(54), << Cmd("resolve_module"), ModuleName("colorsys") >>) }
      \cup { Req(PyInt(55), << Cmd("resolve_module"), ModuleName(name) >>) :
                name \in {"sys", "gc", "json", "nope_xyz", "boom", "needy", "..x", "quitmod", "intr"} }

MixedLines ==
    { BlankLine, GarbageLine, Req(PyInt(60), << Cmd("shutdown") >>),
      Req(PyInt(61), << Cmd("parse_content"), Content(SrcAssign) >>),
      ReqNoId(<< Cmd("parse_content"), Content(SrcAssign) >>),
      Req(PyInt(62), << Cmd("parse_content"), Content(SrcSyntax), FilePath("syn.py") >>),
      Req(PyInt(63), << Cmd("extract_imports"), Content(SrcImport) >>),
      ReqNoId(<< Cmd("extract_imports"), Content(SrcNested), FilePath("bad.py") >>),
      Req(PyInt(64), << Cmd("extract_imports"), FilePath("imp.py") >>),
      Req(PyInt(65), << Cmd("parse_file"), FilePath("missing.py") >>),
      Req(PyInt(66), << Cmd("resolve_module"), ModuleName("colorsys") >>),
      Req(PyInt(67), << Cmd("resolve_module"), ModuleName("nope_xyz") >>),
      Req(PyInt(68), << Cmd("nope") >>) }

(* parse_content and extract_imports over the same contents under every   *)
(* kind of file_path member: absent, a label, the name of a host file,    *)
(* a name holding NUL, a number, null.                                    *)
LabelContents == { SrcAssign, SrcImport, SrcSyntax }

LabelPaths ==
    { << >>, << FilePath("lbl") >>, << FilePath("a.py") >>, << FilePath("bad.py") >>,
      << FilePath(NulPath) >>, << Item("file_path", PyInt(5)) >>,
      << Item("file_path", PyNone) >> }

LabelLines ==
    { BlankLine, GarbageLine, Req(PyInt(80), << Cmd("shutdown") >>),
      Req(PyInt(83), << Cmd("parse_file"), FilePath("a.py") >>),
      Req(PyInt(84), << Cmd("parse_file"), FilePath("syn.py") >>),
      Req(PyInt(85), << Cmd("resolve_module"), ModuleName("colorsys") >>),
      Req(PyInt(86), << Cmd("resolve_module"), ModuleName("nope_xyz") >>),
      Req(PyInt(87), << Cmd("nope") >>) }
      \cup { Req(PyInt(81), << Cmd("parse_content"), Content(c) >> \o p) :
                 c \in LabelContents, p \in LabelPaths }
      \cup { Req(PyInt(82), << Cmd("extract_imports"), Content(c) >> \o p) :
                 c \in LabelContents, p \in LabelPaths }

(* parse_content and extract_imports over the same contents, from the     *)
(* empty text to expressions long enough to reach the recursion limit     *)
AgreeContents ==
    { SrcEmpty, SrcAssign, SrcBytes, SrcImport, SrcSyntax, SrcDeepImports,
      SrcLongSum, SrcLongerSum }

AgreePaths == { << >>, << FilePath("lbl") >>, << FilePath("bad.py") >> }

AgreeLines ==
    { BlankLine, GarbageLine, Req(PyInt(90), << Cmd("shutdown") >>) }
      \cup { Req(PyInt(91), << Cmd("parse_content"), Content(c) >> \o p) :
                 c \in AgreeContents, p \in AgreePaths }
      \cup { Req(PyInt(92), << Cmd("extract_imports"), Content(c) >> \o p) :
                 c \in AgreeContents, p \in AgreePaths }

(* resolve_module under every kind of module_name member, and the other  *)
(* commands carrying a module_name member                                 *)
LookupNames ==
    { PyNone, PyStr(""), PyInt(0), PyBool(FALSE), PyList(<< >>), PyDict(<< >>),
      PyStr("colorsys"), PyStr("sys"), PyStr("nope_xyz"), PyStr("boom"),
      PyInt(5), PyBool(TRUE), PyList(<< PyInt(1) >>) }

LookupLines ==
    { BlankLine, GarbageLine,
      Req(PyInt(100), << Cmd("shutdown"), ModuleName("colorsys") >>),
      Req(PyInt(101), << Cmd("resolve_module") >>),
      Req(PyInt(103), << Cmd("parse_content"), Content(SrcImport), ModuleName("colorsys") >>),
      Req(PyInt(104), << Cmd("parse_file"), FilePath("imp.py"), ModuleName("colorsys") >>),
      Req(PyInt(105), << Cmd("extract_imports"), Content(SrcImport), ModuleName("colorsys") >>),
      Req(PyInt(106), << Cmd("nope"), ModuleName("colorsys") >>),
      ReqNoId(<< ModuleName("colorsys") >>) }
      \cup { Req(PyInt(102), << Cmd("resolve_module"), Item("module_name", n) >>) :
                 n \in LookupNames }

Streams(lines, max) == UNION { [1..n -> lines] : n \in 0..max }

(* ---------------------------------------------------------------------- *)
(* run_server: the session loop                                           *)
(* ---------------------------------------------------------------------- *)
VARIABLES argv, input, pos, output, state, pc, message, response, request_id,
          calls, sys_modules, uncaught

vars == << argv, input, pos, output, state, pc, message, response, request_id,
           calls, sys_modules, uncaught >>

(* sys.argv of a worker started in server mode *)
ServerArgv == << "python_ast_helper.py", "--server" >>

InitWith(streams) ==
    /\ argv = ServerArgv
    /\ input \in streams
    /\ pos = 0
    /\ output = <<>>
    /\ state = "Running"
    /\ pc = "read"
    /\ message = PyNone
    /\ response = PyNone
    /\ request_id = PyNone
    /\ calls = <<>>
    /\ sys_modules = PreloadedModules
    /\ uncaught = ""

Init == InitWith(Streams(CoreLines, MaxLines))

InitId == InitWith(Streams(IdLines, MaxIdLines))

InitLive == InitWith(Streams(ShutdownLines, MaxLiveLines))

InitFiles == InitWith(Streams(FileLines, MaxFileLines))

InitTrees == InitWith(Streams(TreeLines, MaxTreeLines))

InitModules == InitWith(Streams(ModuleLines, MaxModuleLines))

InitMixed == InitWith(Streams(MixedLines, MaxMixedLines))

InitLabels == InitWith(Streams(LabelLines, MaxLabelLines))

InitAgree == InitWith(Streams(AgreeLines, MaxAgreeLines))

InitLookup == InitWith(Streams(LookupLines, MaxLookupLines))

(* for line in sys.stdin: end of input leaves the loop *)
EndOfInput ==
    /\ state = "Running" /\ pc = "read"
    /\ pos = Len(input)
    /\ state' = "Terminated"
    /\ UNCHANGED << argv, input, pos, output, pc, message, response, request_id,
                    calls, sys_modules, uncaught >>

(* SkipBlank that hands the blank line to json.loads, which rejects it *)
SkipBlank_Decoded ==
    /\ state = "Running" /\ pc = "read"
    /\ pos < Len(input)
    /\ IsBlank(input[pos + 1])
    /\ pos' = pos + 1
    /\ output' = Append(output, InvalidJSONResponse)
    /\ UNCHANGED << argv, input, state, pc, message, response, request_id,
                    calls, sys_modules, uncaught >>

(* if not line.strip(): continue *)
SkipBlank ==
    /\ state = "Running" /\ pc = "read"
    /\ pos < Len(input)
    /\ IsBlank(input[pos + 1])
    /\ pos' = pos + 1
    /\ UNCHANGED << argv, input, output, state, pc, message, response, request_id,
                    calls, sys_modules, uncaught >>

ReadLine ==
    /\ state = "Running" /\ pc = "read"
    /\ pos < Len(input)
    /\ ~IsBlank(input[pos + 1])
    /\ pos' = pos + 1
    /\ pc' = "decode"
    /\ message' = PyNone
    /\ response' = PyNone
    /\ request_id' = PyNone
    /\ calls' = <<>>
    /\ UNCHANGED << argv, input, output, state, sys_modules, uncaught >>

(* message = json.loads(line); JSONDecodeError writes InvalidJSON and continues *)
Decode ==
    /\ state = "Running" /\ pc = "decode"
    /\ LET r == json_loads(input[pos])
       IN  IF ~r.raised
           THEN /\ message' = r.value
                /\ pc' = "dispatch"
                /\ UNCHANGED << output, state, uncaught >>
           ELSE /\ output' = Append(output, InvalidJSONResponse)
                /\ pc' = "read"
                /\ UNCHANGED << message, state, uncaught >>
    /\ UNCHANGED << argv, input, pos, response, request_id, calls, sys_modules >>

(* DispatchRequest that assigns request_id only when the request has an   *)
(* id, so that a request without one goes out under the id last written   *)
DispatchRequest_KeepsId ==
    /\ state = "Running" /\ pc = "dispatch"
    /\ \E d \in { Dispatch(message, sys_modules) } :
           /\ calls' = d.calls
           /\ sys_modules' = d.modules
           /\ request_id' = IF d.request_id = PyNone /\ output # <<>>
                            THEN DictGet(output[Len(output)], "id", PyNone)
                            ELSE d.request_id
           /\ IF d.res.raised
              THEN /\ state' = "Crashed"
                   /\ uncaught' = d.res.exc
                   /\ UNCHANGED << response, pc >>
              ELSE /\ response' = d.res.value
                   /\ pc' = IF d.branch = "shutdown" THEN "write_shutdown" ELSE "write"
                   /\ UNCHANGED << state, uncaught >>
    /\ UNCHANGED << argv, input, pos, output, message >>

(* lines 165-190: read the members, run the command's branch *)
DispatchRequest ==
    /\ state = "Running" /\ pc = "dispatch"
    /\ \E d \in { Dispatch(message, sys_modules) } :
           /\ calls' = d.calls
           /\ sys_modules' = d.modules
           /\ request_id' = d.request_id
           /\ IF d.res.raised
              THEN /\ state' = "Crashed"
                   /\ uncaught' = d.res.exc
                   /\ UNCHANGED << response, pc >>
              ELSE /\ response' = d.res.value
                   /\ pc' = IF d.branch = "shutdown" THEN "write_shutdown" ELSE "write"
                   /\ UNCHANGED << state, uncaught >>
    /\ UNCHANGED << argv, input, pos, output, message >>

(* WriteResponse that leaves the encoded line unflushed when it returns  *)
(* to the read                                                           *)
WriteResponse_Unflushed ==
    /\ state = "Running" /\ pc = "write"
    /\ LET r == AttachId(response, request_id)
       IN  IF JsonSerializable(r)
           THEN /\ pc' = "read"
                /\ UNCHANGED << output, state, uncaught >>
           ELSE /\ state' = "Crashed"
                /\ uncaught' = "TypeError"
                /\ UNCHANGED << output, pc >>
    /\ UNCHANGED << argv, input, pos, message, response, request_id, calls, sys_modules >>

(* lines 192-196: attach the id, write one line, flush *)
WriteResponse ==
    /\ state = "Running" /\ pc = "write"
    /\ LET r == AttachId(response, request_id)
       IN  IF JsonSerializable(r)
           THEN /\ output' = Append(output, r)
                /\ pc' = "read"
                /\ UNCHANGED << state, uncaught >>
           ELSE /\ state' = "Crashed"
                /\ uncaught' = "TypeError"
                /\ UNCHANGED << output, pc >>
    /\ UNCHANGED << argv, input, pos, message, response, request_id, calls, sys_modules >>

(* WriteShutdown without the break of line 188 *)
WriteShutdown_NoBreak ==
    /\ state = "Running" /\ pc = "write_shutdown"
    /\ output' = Append(output, AttachId(response, request_id))
    /\ pc' = "read"
    /\ UNCHANGED << argv, input, pos, state, message, response, request_id, calls, sys_modules, uncaught >>

(* lines 184-188: attach the id, write one line, flush, break *)
WriteShutdown ==
    /\ state = "Running" /\ pc = "write_shutdown"
    /\ output' = Append(output, AttachId(response, request_id))
    /\ pc' = "read"
    /\ state' = "Terminated"
    /\ UNCHANGED << argv, input, pos, message, response, request_id, calls, sys_modules, uncaught >>

Next ==
    \/ EndOfInput
    \/ SkipBlank
    \/ ReadLine
    \/ Decode
    \/ DispatchRequest
    \/ WriteResponse
    \/ WriteShutdown

Spec == Init /\ [][Next]_vars

SpecId == InitId /\ [][Next]_vars

SpecFiles == InitFiles /\ [][Next]_vars

SpecTrees == InitTrees /\ [][Next]_vars

SpecModules == InitModules /\ [][Next]_vars

SpecMixed == InitMixed /\ [][Next]_vars

SpecLabels == InitLabels /\ [][Next]_vars

SpecAgree == InitAgree /\ [][Next]_vars

SpecLookup == InitLookup /\ [][Next]_vars

(* The worker is one sequential process: while a step is possible it is taken *)
SpecLive == InitLive /\ [][Next]_vars /\ WF_vars(Next)

(* ---------------------------------------------------------------------- *)
(* main: the process from its command line (lines 199-227)                *)
(* ---------------------------------------------------------------------- *)
Helper == "python_ast_helper.py"

UsageResponse ==
    PyDict(<< Item("success", PyBool(FALSE)), Item("error", PyStr("Usage")),
              Item("message", PyStr("python_ast_helper.py --server | <file> | extract_imports <file> | resolve_module <name>")) >>)

(* '--server' in sys.argv *)
InArgv(a, word) == \E i \in 1..Len(a) : a[i] = word

(* lines 204-223: the operation chosen by the shape of sys.argv *)
main_operation(a, modules) ==
    IF Len(a) = 2
    THEN [op |-> parse_file(PyStr(a[2])), modules |-> modules]
    ELSE IF Len(a) = 3 /\ a[2] = "extract_imports"
    THEN [op |-> extract_imports(PyStr(a[3]), PyNone), modules |-> modules]
    ELSE IF Len(a) = 3 /\ a[2] = "resolve_module"
    THEN [op |-> resolve_module(PyStr(a[3]), modules),
          modules |-> resolve_module(PyStr(a[3]), modules).modules]
    ELSE [op |-> [calls |-> <<>>, res |-> Return(UsageResponse)], modules |-> modules]

Argvs ==
    { << Helper >>, ServerArgv, << Helper, "--server", "x" >>,
      << Helper, "a", "b", "c" >>, << Helper, "frobnicate", "a.py" >>,
      << Helper, "extract_imports" >> }
      \cup { << Helper, f >> : f \in {"a.py", "syn.py", "bad.py", "lit.py", "missing.py", "secret.py"} }
      \cup { << Helper, "extract_imports", f >> : f \in {"imp.py", "syn.py", "bad.py", "missing.py"} }
      \cup { << Helper, "resolve_module", m >> : m \in {"colorsys", "sys", "nope_xyz", "boom", "quitmod", "intr"} }

StdinLines ==
    { BlankLine, GarbageLine,
      Req(PyInt(70), << Cmd("parse_content"), Content(SrcAssign) >>),
      Req(PyInt(71), << Cmd("shutdown") >>) }

InitMain ==
    /\ argv \in Argvs
    /\ input \in Streams(StdinLines, MaxStdinLines)
    /\ ~InArgv(argv, "--server") => input = <<>>
    /\ pos = 0
    /\ output = <<>>
    /\ state = "Running"
    /\ pc = "main"
    /\ message = PyNone
    /\ response = PyNone
    /\ request_id = PyNone
    /\ calls = <<>>
    /\ sys_modules = PreloadedModules
    /\ uncaught = ""

(* lines 200-202: if '--server' in sys.argv: run_server(); return *)
main_Server ==
    /\ state = "Running" /\ pc = "main"
    /\ argv[1] = Helper
    /\ InArgv(argv, "--server")
    /\ pc' = "read"
    /\ UNCHANGED << argv, input, pos, output, state, message, response, request_id,
                    calls, sys_modules, uncaught >>

(* lines 204-223: result = <operation>(...), up to the print *)
main_Batch ==
    /\ state = "Running" /\ pc = "main"
    /\ argv[1] = Helper
    /\ ~InArgv(argv, "--server")
    /\ \E b \in { main_operation(argv, sys_modules) } :
           /\ calls' = b.op.calls
           /\ sys_modules' = b.modules
           /\ IF b.op.res.raised
              THEN /\ state' = "Crashed"
                   /\ uncaught' = b.op.res.exc
                   /\ UNCHANGED << response, pc >>
              ELSE /\ response' = b.op.res.value
                   /\ pc' = "print"
                   /\ UNCHANGED << state, uncaught >>
    /\ UNCHANGED << argv, input, pos, output, message, request_id >>

(* print(json.dumps(result)); return *)
main_Print ==
    /\ state = "Running" /\ pc = "print"
    /\ argv[1] = Helper
    /\ IF JsonSerializable(response)
       THEN /\ output' = Append(output, response)
            /\ state' = "Terminated"
            /\ UNCHANGED uncaught
       ELSE /\ state' = "Crashed"
            /\ uncaught' = "TypeError"
            /\ UNCHANGED output
    /\ UNCHANGED << argv, input, pos, pc, message, response, request_id, calls, sys_modules >>

NextMain == main_Server \/ main_Batch \/ main_Print \/ Next

SpecMain == InitMain /\ [][NextMain]_vars

(* ---------------------------------------------------------------------- *)
(* apps/server/python_ast_helper.py: the older helper, batch parse only   *)
(* ---------------------------------------------------------------------- *)
LegacyHelper == "apps/server/python_ast_helper.py"

LegacyUsageResponse ==
    PyDict(<< Item("success", PyBool(FALSE)),
              Item("error", PyStr("Usage: python_ast_helper.py <file_path>")) >>)

(* apps/server parse_file (lines 40-72): read, parse and serialize inside *)
(* one try; SyntaxError and every other Exception become a result         *)
legacy_parse_file(file_path) ==
    LET src == open_read(file_path)
    IN  IF src.raised
        THEN [calls |-> << Call("open", file_path) >>,
              res |-> IF IsException(src.exc) THEN Return(ExceptionResult(src)) ELSE src]
        ELSE LET r == ast_parse(src.value, file_path)
             IN  [calls |-> << Call("open", file_path), Call("ast.parse", src.value) >>
                                \o ErrorLineRead(r, file_path),
                  res |-> Return(IF ~r.raised
                                 THEN IF CallerFrames + 1 + NodeToDictFrames(r.value) > RecursionLimit
                                      THEN RecursionErrorResult
                                      ELSE PyDict(<< Item("success", PyBool(TRUE)),
                                                     Item("ast", node_to_dict(r.value)),
                                                     Item("content", src.value) >>)
                                 ELSE IF r.exc = "SyntaxError"
                                 THEN SyntaxErrorResult(r)
                                 ELSE ExceptionResult(r))]

(* lines 74-80: the usage exit, or result = parse_file(sys.argv[1]) *)
legacy_Main ==
    /\ state = "Running" /\ pc = "main"
    /\ argv[1] = LegacyHelper
    /\ IF Len(argv) # 2
       THEN /\ output' = Append(output, LegacyUsageResponse)
            /\ state' = "Crashed"
            /\ uncaught' = "SystemExit"
            /\ UNCHANGED << response, pc, calls >>
       ELSE \E b \in { legacy_parse_file(PyStr(argv[2])) } :
               /\ calls' = b.calls
               /\ IF b.res.raised
                  THEN /\ state' = "Crashed"
                       /\ uncaught' = b.res.exc
                       /\ UNCHANGED << response, pc, output >>
                  ELSE /\ response' = b.res.value
                       /\ pc' = "print"
                       /\ UNCHANGED << state, uncaught, output >>
    /\ UNCHANGED << argv, input, pos, message, request_id, sys_modules >>

(* line 81: print(json.dumps(result)) *)
legacy_Print ==
    /\ state = "Running" /\ pc = "print"
    /\ argv[1] = LegacyHelper
    /\ IF JsonSerializable(response)
       THEN /\ output' = Append(output, response)
            /\ state' = "Terminated"
            /\ UNCHANGED uncaught
       ELSE /\ state' = "Crashed"
            /\ uncaught' = "TypeError"
            /\ UNCHANGED output
    /\ UNCHANGED << argv, input, pos, pc, message, response, request_id, calls, sys_modules >>

(* The files handed to the two helpers *)
VariantFiles ==
    { "a.py", "imp.py", "syn.py", "lit.py", "bad.py", "pkg", "secret.py", "missing.py" }

LegacyArgvs ==
    { << LegacyHelper >>, << LegacyHelper, "a.py", "b.py" >>, << LegacyHelper, "--server" >> }
      \cup { << LegacyHelper, f >> : f \in VariantFiles }

InitVariants ==
    /\ argv \in Argvs \cup LegacyArgvs \cup { << Helper, f >> : f \in VariantFiles }
    /\ input \in Streams(StdinLines, MaxStdinLines)
    /\ (argv[1] = LegacyHelper \/ ~InArgv(argv, "--server")) => input = <<>>
    /\ pos = 0
    /\ output = <<>>
    /\ state = "Running"
    /\ pc = "main"
    /\ message = PyNone
    /\ response = PyNone
    /\ request_id = PyNone
    /\ calls = <<>>
    /\ sys_modules = PreloadedModules
    /\ uncaught = ""

NextVariants == NextMain \/ legacy_Main \/ legacy_Print

SpecVariants == InitVariants /\ [][NextVariants]_vars

(* The exit status of the process: 0 when main returns, the code of a     *)
(* SystemExit, 130 for an interrupt, 1 for any other uncaught exception   *)
ExitStatus ==
    CASE state = "Terminated" -> 0
      [] state = "Crashed" /\ uncaught = "SystemExit" -> IF argv[1] = Helper THEN 3 ELSE 1
      [] state = "Crashed" /\ uncaught = "KeyboardInterrupt" -> 130
      [] state = "Crashed" -> 1
      [] OTHER -> -1

(* ---------------------------------------------------------------------- *)
(* Vocabulary of the properties                                           *)
(* ---------------------------------------------------------------------- *)
NonBlank(n) == Cardinality({ i \in 1..n : ~IsBlank(input[i]) })

IsObjectLine(line) == line.kind = "json" /\ line.value.t = "dict"

CommandOf(line) == DictGet(line.value, "command", PyNone)

CommandNames == {"parse_content", "parse_file", "extract_imports", "resolve_module", "shutdown"}

IsCommand(line, name) == IsObjectLine(line) /\ CommandOf(line) = PyStr(name)

IsShutdownLine(line) == IsCommand(line, "shutdown")

StrMember(line, k) == HasKey(line.value, k) /\ DictGet(line.value, k, PyNone).t = "str"

(* A request of the protocol: an object naming a command of the table and *)
(* carrying the fields that command requires, as strings.                 *)
WellFormed(line) ==
    /\ IsObjectLine(line)
    /\ \/ IsCommand(line, "parse_content") /\ StrMember(line, "content")
       \/ IsCommand(line, "parse_file") /\ StrMember(line, "file_path")
       \/ IsCommand(line, "extract_imports")
            /\ (StrMember(line, "content") \/ StrMember(line, "file_path"))
       \/ IsCommand(line, "resolve_module") /\ StrMember(line, "module_name")
            /\ DictGet(line.value, "module_name", PyNone).v # ""
       \/ IsShutdownLine(line)

(* The loop is between requests and the line at pos was a request line:   *)
(* the last line written is the answer to input[pos].                     *)
Answered == state # "Crashed" /\ pc = "read" /\ pos > 0 /\ ~IsBlank(input[pos])

LastLine == input[pos]

LastResponse == output[Len(output)]

Finished == state # "Running"

IsFailure(resp) == DictGet(resp, "success", PyNone) = PyBool(FALSE)

IsSuccess(resp) == DictGet(resp, "success", PyNone) = PyBool(TRUE)

(* ---------------------------------------------------------------------- *)
(* Claims                                                                 *)
(* ---------------------------------------------------------------------- *)

(* C1: whenever the loop is between lines or has stopped, every non-blank *)
(* line read so far has produced exactly one response line, whatever the  *)
(* line contained.                                                        *)
C1_OneResponsePerLine ==
    (pc = "read" \/ Finished) => Len(output) = NonBlank(pos)

(* C2: no request outcome aborts the session loop: the loop ends only at  *)
(* a shutdown request or at the end of the input.                         *)
C2_LoopEndsOnlyAtShutdownOrEof ==
    Finished =>
        /\ state = "Terminated"
        /\ uncaught = ""
        /\ (pos = Len(input) \/ IsShutdownLine(input[pos]))

RequestId(line) == DictGet(line.value, "id", PyNone)

DistinctIds ==
    /\ \A i \in 1..Len(input) : IsObjectLine(input[i]) /\ HasKey(input[i].value, "id")
    /\ \A i, j \in 1..Len(input) : i # j => RequestId(input[i]) # RequestId(input[j])

ShutdownOnlyLast == \A i \in 1..Len(input) : IsShutdownLine(input[i]) => i = Len(input)

(* C3: FIFO correlation: when the input is N well-formed requests with    *)
(* distinct ids, the finished session has written N responses and the     *)
(* k-th response carries the id of the k-th request.                      *)
C3_FifoCorrelation ==
    ( /\ Finished
      /\ \A i \in 1..Len(input) : WellFormed(input[i])
      /\ DistinctIds
      /\ ShutdownOnlyLast )
    => /\ Len(output) = Len(input)
       /\ \A k \in 1..Len(input) :
             /\ HasKey(output[k], "id")
             /\ DictGet(output[k], "id", PyNone) = RequestId(input[k])

(* C4: the response to a request carries an id member equal to the        *)
(* request's id member whenever the request has one, whatever JSON value  *)
(* it is, and carries an id member only when the request has one.         *)
C4_IdEchoedVerbatim ==
    Answered =>
        /\ (IsObjectLine(LastLine) /\ HasKey(LastLine.value, "id"))
             => /\ HasKey(LastResponse, "id")
                /\ DictGet(LastResponse, "id", PyNone) = RequestId(LastLine)
        /\ HasKey(LastResponse, "id")
             => (IsObjectLine(LastLine) /\ HasKey(LastLine.value, "id"))

InvalidJsonLine(line) == ~IsBlank(line) /\ line.kind # "json"

(* C5: an input of one line that is not valid JSON followed by one        *)
(* well-formed request yields exactly two responses: a failure without id *)
(* for the invalid line, then the result of the request; nothing aborts   *)
(* the session.                                                           *)
C5_InvalidLineThenRequest ==
    ( /\ Finished
      /\ Len(input) = 2
      /\ InvalidJsonLine(input[1])
      /\ WellFormed(input[2]) )
    => /\ uncaught = ""
       /\ Len(output) = 2
       /\ IsFailure(output[1])
       /\ ~HasKey(output[1], "id")
       /\ HasKey(output[2], "success")

ShutdownShape(resp, line) ==
    /\ IsSuccess(resp)
    /\ DictGet(resp, "shutdown", PyNone) = PyBool(TRUE)
    /\ Keys(resp) \subseteq {"success", "shutdown", "id"}
    /\ HasKey(resp, "id") => DictGet(resp, "id", PyNone) = RequestId(line)

C8_FailureHasErrorAndMessage ==
    \A k \in 1..Len(output) :
        IsFailure(output[k]) =>
            /\ HasKey(output[k], "error") /\ DictGet(output[k], "error", PyNone).t = "str"
            /\ HasKey(output[k], "message") /\ DictGet(output[k], "message", PyNone).t = "str"

UnknownCommandLine(line) ==
    /\ IsObjectLine(line)
    /\ \A name \in CommandNames : CommandOf(line) # PyStr(name)

(* C9: a request whose command is not in the table (absent or not a       *)
(* string included) is answered with an UnknownCommand failure, makes no  *)
(* parse, file read or module lookup, and leaves the session Running.     *)
C9_UnknownCommand ==
    /\ (pos > 0 /\ UnknownCommandLine(input[pos])) =>
          /\ state = "Running" \/ (state = "Terminated" /\ pos = Len(input))
          /\ calls = <<>>
    /\ (Answered /\ UnknownCommandLine(LastLine)) =>
          /\ IsFailure(LastResponse)
          /\ DictGet(LastResponse, "error", PyNone) = PyStr("UnknownCommand")

C9_Witness ==
    /\ Answered /\ state = "Running"
    /\ UnknownCommandLine(LastLine)
    /\ CommandOf(LastLine).t = "list"
    /\ Len(output) = NonBlank(pos)

MissingModuleNameLine(line) ==
    IsCommand(line, "resolve_module") /\ ~HasKey(line.value, "module_name")

(* C10: a resolve_module request without module_name is answered with a   *)
(* structured missing-parameter failure, the host module lookup is not    *)
(* invoked, and the session stays Running.                                *)
C10_MissingModuleName ==
    /\ (pos > 0 /\ MissingModuleNameLine(input[pos])) =>
          /\ state = "Running" \/ (state = "Terminated" /\ pos = Len(input))
          /\ \A i \in 1..Len(calls) : calls[i].fn # "import_module"
    /\ (Answered /\ MissingModuleNameLine(LastLine)) =>
          /\ IsFailure(LastResponse)
          /\ DictGet(LastResponse, "error", PyNone) = PyStr("MissingModule")
          /\ DictGet(LastResponse, "message", PyNone).t = "str"
          /\ ~HasKey(LastResponse, "resolved_path")

C10_Witness ==
    /\ Answered /\ state = "Running"
    /\ MissingModuleNameLine(LastLine)
    /\ IsFailure(LastResponse)

(* The request at pos has run its branch: its host calls are in calls    *)
Dispatched == state # "Crashed" /\ pos > 0 /\ pc \in {"write", "write_shutdown", "read"}

MissingRequiredLine(line) ==
    \/ IsCommand(line, "parse_content") /\ ~HasKey(line.value, "content")
    \/ IsCommand(line, "parse_file") /\ ~HasKey(line.value, "file_path")

(* C11: a parse_content request without content, or a parse_file request  *)
(* without file_path, is answered with a failure and runs nothing: no     *)
(* parse of a substituted text, no open of a substituted path.            *)
C11_MissingRequiredField ==
    (Dispatched /\ MissingRequiredLine(input[pos])) =>
        /\ calls = <<>>
        /\ pc = "write" => IsFailure(response)
        /\ Answered => IsFailure(LastResponse)

FilePathOf(line) == DictGet(line.value, "file_path", PyNone)

UnreadableFileLine(line) ==
    /\ IsCommand(line, "parse_file")
    /\ HasKey(line.value, "file_path")
    /\ open_read(FilePathOf(line)).raised

(* C12: for parse_file every failure to read the named file becomes a     *)
(* failure response that is not classified SyntaxError, and never leaves  *)
(* parse_file as an unhandled failure.                                    *)
C12_ReadFailureIsStructured ==
    (pos > 0 /\ UnreadableFileLine(input[pos])) =>
        /\ state # "Crashed"
        /\ Answered =>
              /\ IsFailure(LastResponse)
              /\ DictGet(LastResponse, "error", PyNone).t = "str"
              /\ DictGet(LastResponse, "error", PyNone) # PyStr("SyntaxError")

ReadableFileLine(line) ==
    /\ IsCommand(line, "parse_file")
    /\ HasKey(line.value, "file_path")
    /\ ~open_read(FilePathOf(line)).raised

ContentOf(line) == DictGet(line.value, "content", PyNone)

(* content is supplied: the member is present and is not null *)
ContentSupplied(line) == HasKey(line.value, "content") /\ ContentOf(line) # PyNone

(* C14: extract_imports parses the request's content whenever content is  *)
(* supplied, the empty string included, and then never opens file_path;   *)
(* it opens file_path only when content is not supplied.                  *)
C14_ContentBeforeFile ==
    (Dispatched /\ IsCommand(input[pos], "extract_imports")) =>
        /\ ContentSupplied(input[pos]) =>
              calls = << Call("ast.parse", ContentOf(input[pos])) >>
        /\ ~ContentSupplied(input[pos]) =>
              /\ Len(calls) >= 1
              /\ calls[1] = Call("open", DictGet(input[pos].value, "file_path", PyStr("<memory>")))
        /\ (\E i \in 1..Len(calls) : calls[i].fn = "open") => ~ContentSupplied(input[pos])

C14_Witness ==
    /\ Answered /\ IsCommand(LastLine, "extract_imports")
    /\ ContentOf(LastLine) = PyStr("")
    /\ HasKey(LastLine.value, "file_path")
    /\ IsSuccess(LastResponse)
    /\ calls = << Call("ast.parse", PyStr("")) >>

(* ---------------------------------------------------------------------- *)
(* python-sidecar/app.py: POST /v1/embeddings                             *)
(* A text is a sequence of characters: a letter, a blank, or "^" for a    *)
(* control character (U+0001), which is neither printable nor whitespace. *)
(* ---------------------------------------------------------------------- *)
Chars == {"a", " ", "^"}

IsSpace(c) == c = " "

(* char.isprintable() or char in '\n\t\r ' *)
IsKept(c) == c # "^"

Texts == UNION { [1..n -> Chars] : n \in 0..MaxTextLen }

TextInput(text) == [t |-> "str", chars |-> text]

ListInput(items) == [t |-> "list", v |-> items]

EmbeddingBodies ==
    { [inputs |-> TextInput(text)] : text \in Texts }
      \cup { [inputs |-> ListInput(items)] :
                 items \in UNION { [1..n -> Texts] : n \in 0..MaxInputs } }

(* not item or not item.strip() *)
IsBlankText(text) == \A i \in 1..Len(text) : IsSpace(text[i])

(* sanitize_text: drop the characters that are neither printable nor      *)
(* whitespace                                                             *)
sanitize_text(text) == SelectSeq(text, IsKept)

(* ' '.join(cleaned.split()): the words of the text, one blank apart *)
RECURSIVE JoinWords(_, _)
JoinWords(text, i) ==
    IF i > Len(text) THEN <<>>
    ELSE (IF \/ ~IsSpace(text[i])
             \/ /\ i > 1 /\ ~IsSpace(text[i - 1])
                /\ \E j \in (i + 1)..Len(text) : ~IsSpace(text[j])
          THEN << text[i] >> ELSE <<>>) \o JoinWords(text, i + 1)

(* lines 251-271: the inputs kept for encoding, cleaned *)
RECURSIVE valid_inputs(_, _)
valid_inputs(inputs, i) ==
    IF i > Len(inputs) THEN <<>>
    ELSE LET item == inputs[i]
             cleaned == JoinWords(sanitize_text(item), 1)
         IN  (IF IsBlankText(item) \/ cleaned = <<>> THEN <<>> ELSE << cleaned >>)
                 \o valid_inputs(inputs, i + 1)

(* _mock_encode / _model.encode: one vector per text, fixed by the text *)
encode(texts) == [i \in 1..Len(texts) |-> [vector_of |-> texts[i]]]

(* lines 241-341 with a backend that encodes without error *)
embeddings_handler(body) ==
    LET inputs == IF body.inputs.t = "str" THEN << body.inputs.chars >> ELSE body.inputs.v
        valid == valid_inputs(inputs, 1)
    IN  IF inputs = <<>>
        THEN [status |-> 400, detail |-> "inputs must be string or string[]"]
        ELSE IF valid = <<>>
        THEN [status |-> 400, detail |-> "No valid string inputs provided"]
        ELSE [status |-> 200, embeddings |-> encode(valid)]

InitSidecar ==
    /\ argv = << "app.py" >>
    /\ input = <<>>
    /\ pos = 0
    /\ output = <<>>
    /\ state = "Running"
    /\ pc = "embeddings"
    /\ message \in EmbeddingBodies
    /\ response = PyNone
    /\ request_id = PyNone
    /\ calls = <<>>
    /\ sys_modules = PreloadedModules
    /\ uncaught = ""

(* the handler answers the request held in message *)
embeddings ==
    /\ state = "Running" /\ pc = "embeddings"
    /\ response' = embeddings_handler(message)
    /\ pc' = "responded"
    /\ UNCHANGED << argv, input, pos, output, state, message, request_id,
                    calls, sys_modules, uncaught >>

NextSidecar == embeddings

SpecSidecar == InitSidecar /\ [][NextSidecar]_vars

(* ---------------------------------------------------------------------- *)
(* Vocabulary of the import extractor claims                              *)
(* ---------------------------------------------------------------------- *)
(* Every node of a tree, in left-to-right pre-order *)
RECURSIVE NodesOf(_), NodesOfList(_, _)
NodesOfList(vals, i) ==
    IF i > Len(vals) THEN <<>> ELSE NodesOf(vals[i]) \o NodesOfList(vals, i + 1)

NodesOf(x) ==
    CASE x.t = "ast" -> << x >> \o NodesOfList([i \in 1..Len(x.fields) |-> x.fields[i].v], 1)
      [] x.t = "list" -> NodesOfList(x.v, 1)
      [] OTHER -> <<>>

IsImportStatement(n) == n.type \in {"Import", "ImportFrom"}

ImportStatements(tree) == SelectSeq(NodesOf(tree), IsImportStatement)

(* An extract_imports request whose content is text the parser accepts *)
ExtractLine(line) ==
    /\ IsCommand(line, "extract_imports")
    /\ StrMember(line, "content")
    /\ ~ast_parse(ContentOf(line), PyStr("<memory>")).raised

ExtractAnswered == Answered /\ ExtractLine(LastLine) /\ IsSuccess(LastResponse)

Records == DictGet(LastResponse, "imports", PyList(<<>>)).v

Statements == ImportStatements(TreeOf(ContentOf(LastLine).v))

(* The record stands at the position of the statement and has its form *)
RecordAt(rec, stmt) ==
    /\ DictGet(rec, "type", PyNone) = PyStr(stmt.type)
    /\ DictGet(rec, "line", PyNone) = GetAttr(stmt, "lineno")
    /\ DictGet(rec, "column", PyNone) = GetAttr(stmt, "col_offset")

PositionBefore(r1, r2) ==
    LET l1 == DictGet(r1, "line", PyNone).v
        l2 == DictGet(r2, "line", PyNone).v
    IN  \/ l1 < l2
        \/ l1 = l2 /\ DictGet(r1, "column", PyNone).v < DictGet(r2, "column", PyNone).v

(* C15: the records of an answered extract_imports come in source order:  *)
(* of any two records the earlier one stands at the earlier position of   *)
(* the text and belongs to the statement met earlier in a left-to-right   *)
(* pre-order walk, at top level and at any depth.                         *)
C15_RecordsInSourceOrder ==
    ExtractAnswered =>
        \A i, j \in 1..Len(Records) :
            i < j =>
                /\ PositionBefore(Records[i], Records[j])
                /\ \E k, l \in 1..Len(Statements) :
                      /\ k < l
                      /\ RecordAt(Records[i], Statements[k])
                      /\ RecordAt(Records[j], Statements[l])

C15_Witness ==
    /\ ExtractAnswered
    /\ ContentOf(LastLine) = PyStr(SrcDeepImports)
    /\ Len(Records) = 5
    /\ DictGet(Records[2], "line", PyNone) = PyInt(4)
    /\ DictGet(Records[5], "line", PyNone) = PyInt(9)

(* C16: extraction is complete and duplicate-free: every import statement *)
(* of the tree, nested or not, has exactly one record, every record       *)
(* belongs to an import statement, and the two counts agree.              *)
C16_OneRecordPerImport ==
    ExtractAnswered =>
        /\ Len(Records) = Len(Statements)
        /\ \A k \in 1..Len(Statements) :
              Cardinality({ i \in 1..Len(Records) : RecordAt(Records[i], Statements[k]) }) = 1
        /\ \A i \in 1..Len(Records) :
              \E k \in 1..Len(Statements) : RecordAt(Records[i], Statements[k])

C16_Witness ==
    /\ ExtractAnswered
    /\ ContentOf(LastLine) = PyStr(SrcNested)
    /\ Len(NodesOf(TreeOf(SrcNested))) > 2
    /\ Len(Records) = 1
    /\ DictGet(Records[1], "type", PyNone) = PyStr("ImportFrom")

RecordMembers == {"type", "module", "level", "line", "column", "names"}

NameEntries(rec) == DictGet(rec, "names", PyList(<<>>)).v

(* C17: the record of a direct import has the members of a from-module   *)
(* record, with level 0, a null module and at least one name entry.      *)
C17_DirectImportRecord ==
    ExtractAnswered =>
        \A i \in 1..Len(Records) :
            DictGet(Records[i], "type", PyNone) = PyStr("Import") =>
                /\ Keys(Records[i]) = RecordMembers
                /\ DictGet(Records[i], "level", PyNone) = PyInt(0)
                /\ DictGet(Records[i], "module", PyNone) = PyNone
                /\ Len(NameEntries(Records[i])) >= 1

(* The leading dots of the from-module statements in the texts above, by *)
(* text and line, counted in the text itself                             *)
LeadingDots(src, lineno) ==
    CASE src = SrcNested /\ lineno = 2 -> 1
      [] src = SrcTwoImports /\ lineno = 2 -> 0
      [] src = SrcDeepImports /\ lineno = 6 -> 2
      [] src = SrcDeepImports /\ lineno = 8 -> 1
      [] OTHER -> 0

(* The name entries of a record are the aliases of the statement, in     *)
(* order, each with its alias or null                                    *)
EntriesMatch(rec, stmt) ==
    LET entries == NameEntries(rec)
        aliases == GetField(stmt, "names").v
    IN  /\ Len(entries) = Len(aliases)
        /\ \A j \in 1..Len(entries) :
              /\ entries[j] = PyDict(<< Item("name", GetField(aliases[j], "name")),
                                        Item("asname", GetField(aliases[j], "asname")) >>)
              /\ DictGet(entries[j], "name", PyNone).t = "str"
              /\ DictGet(entries[j], "asname", PyNone).t \in {"str", "None"}
              /\ DictGet(entries[j], "name", PyNone) = PyStr("*") =>
                    (Len(entries) = 1 /\ DictGet(entries[j], "asname", PyNone) = PyNone)

(* C18: the record of a from-module import carries the statement's       *)
(* module qualifier, a level that is the number of leading dots (never   *)
(* negative), and the statement's names in order with their aliases; an  *)
(* import of everything is one entry named "*" without alias.            *)
C18_FromImportRecord ==
    ExtractAnswered =>
        \A i \in 1..Len(Records) :
            DictGet(Records[i], "type", PyNone) = PyStr("ImportFrom") =>
                \E k \in 1..Len(Statements) :
                    /\ RecordAt(Records[i], Statements[k])
                    /\ DictGet(Records[i], "module", PyStr("?")) = GetField(Statements[k], "module")
                    /\ DictGet(Records[i], "level", PyNone).t = "int"
                    /\ DictGet(Records[i], "level", PyNone).v >= 0
                    /\ DictGet(Records[i], "level", PyNone).v
                          = LeadingDots(ContentOf(LastLine).v, DictGet(Records[i], "line", PyNone).v)
                    /\ EntriesMatch(Records[i], Statements[k])

C18_Witness ==
    /\ ExtractAnswered
    /\ ContentOf(LastLine) = PyStr(SrcDeepImports)
    /\ Len(Records) >= 4
    /\ DictGet(Records[3], "level", PyNone) = PyInt(2)
    /\ DictGet(Records[3], "module", PyNone) = PyStr("pkg")
    /\ NameEntries(Records[3]) = << PyDict(<< Item("name", PyStr("*")), Item("asname", PyNone) >>) >>
    /\ DictGet(Records[4], "module", PyStr("?")) = PyNone
    /\ NameEntries(Records[4]) = << PyDict(<< Item("name", PyStr("a")), Item("asname", PyStr("b")) >>) >>

(* ---------------------------------------------------------------------- *)
(* Vocabulary of the serializer claims                                     *)
(* ---------------------------------------------------------------------- *)
(* The grammar's declared fields of each node kind (ast.<kind>._fields)   *)
DeclaredFields(type) ==
    CASE type = "Module" -> << "body", "type_ignores" >>
      [] type = "Assign" -> << "targets", "value", "type_comment" >>
      [] type = "Name" -> << "id", "ctx" >>
      [] type = "Constant" -> << "value", "kind" >>
      [] type = "Import" -> << "names" >>
      [] type = "ImportFrom" -> << "module", "names", "level" >>
      [] type = "alias" -> << "name", "asname" >>
      [] type = "If" -> << "test", "body", "orelse" >>
      [] type = "FunctionDef" -> << "name", "args", "body", "decorator_list", "returns", "type_comment" >>
      [] type = "arguments" -> << "posonlyargs", "args", "vararg", "kwonlyargs", "kw_defaults", "kwarg", "defaults" >>
      [] type = "Try" -> << "body", "handlers", "orelse", "finalbody" >>
      [] type = "ExceptHandler" -> << "type", "name", "body" >>
      [] type = "ClassDef" -> << "name", "bases", "keywords", "body", "decorator_list" >>
      [] type = "Dict" -> << "keys", "values" >>
      [] OTHER -> << >>

IsLocationKey(k) == \E i \in 1..Len(LocationAttrs) : LocationAttrs[i] = k

(* A serialized node lists _type, then the location members it has, then  *)
(* the declared fields of its kind, in that order, and so do the nodes    *)
(* below it                                                               *)
RECURSIVE DeclaredOrder(_)
DeclaredOrder(x) ==
    CASE x.t = "dict" ->
            LET members == [i \in 1..Len(x.v) |-> x.v[i].k]
            IN  /\ Len(members) >= 1
                /\ members[1] = "_type"
                /\ x.v[1].v.t = "str"
                /\ SelectSeq(Tail(members), LAMBDA k : ~IsLocationKey(k))
                      = DeclaredFields(x.v[1].v.v)
                /\ \E n \in 0..Len(LocationAttrs) :
                      /\ \A i \in 2..(n + 1) : i <= Len(members) /\ IsLocationKey(members[i])
                      /\ \A i \in (n + 2)..Len(members) : ~IsLocationKey(members[i])
                      /\ SubSeq(members, 2, n + 1)
                            = SelectSeq(LocationAttrs, LAMBDA a : HasKey(x, a))
                /\ \A i \in 1..Len(x.v) : DeclaredOrder(x.v[i].v)
      [] x.t = "list" -> \A i \in 1..Len(x.v) : DeclaredOrder(x.v[i])
      [] OTHER -> TRUE

(* A parse_content request whose content is text the parser accepts *)
ParseLine(line) ==
    /\ IsCommand(line, "parse_content")
    /\ StrMember(line, "content")
    /\ ~ast_parse(ContentOf(line), PyStr("<memory>")).raised

(* The line answered by the k-th line of the output *)
OutputLine(k) ==
    input[CHOOSE i \in 1..Len(input) : ~IsBlank(input[i]) /\ NonBlank(i) = k]

(* C19: the serialized tree lists the fields of every node in the         *)
(* grammar's declared order, and two requests of a session that carry the *)
(* same text get the same tree, whatever was handled between them.        *)
C19_SerializationDeterministic ==
    /\ (state = "Running" /\ pc = "write" /\ ParseLine(input[pos])) =>
          /\ IsSuccess(response)
          /\ HasKey(response, "ast")
          /\ DeclaredOrder(DictGet(response, "ast", PyNone))
    /\ state # "Crashed" =>
          \A k, l \in 1..Len(output) :
              ( /\ ParseLine(OutputLine(k)) /\ ParseLine(OutputLine(l))
                /\ ContentOf(OutputLine(k)) = ContentOf(OutputLine(l)) ) =>
                  /\ HasKey(output[k], "ast")
                  /\ DictGet(output[k], "ast", PyNone) = DictGet(output[l], "ast", PyNone)

C19_Witness ==
    /\ Answered /\ pos = 2 /\ Len(output) = 2
    /\ ParseLine(input[1]) /\ ParseLine(input[2])
    /\ ContentOf(input[1]) = PyStr(SrcDeepImports)
    /\ ContentOf(input[2]) = PyStr(SrcDeepImports)
    /\ DictGet(output[1], "ast", PyNone) = DictGet(output[2], "ast", PyNone)
    /\ Len(DictGet(DictGet(output[2], "ast", PyNone), "body", PyNone).v) = 4

IsScalar(x) == x.t \in {"None", "bool", "int", "str"}

IsSerializedNode(x) == x.t = "dict" /\ HasKey(x, "_type")

(* Every member of a serialized node is a scalar, a node, a list of nodes *)
(* or a list of scalars, and so are the members of the nodes below it     *)
RECURSIVE FieldShapes(_)
FieldShapes(d) ==
    \A i \in 1..Len(d.v) :
        LET value == d.v[i].v
        IN  \/ IsScalar(value)
            \/ IsSerializedNode(value) /\ FieldShapes(value)
            \/ /\ value.t = "list"
               /\ \A j \in 1..Len(value.v) :
                     IsSerializedNode(value.v[j]) /\ FieldShapes(value.v[j])
            \/ /\ value.t = "list"
               /\ \A j \in 1..Len(value.v) : IsScalar(value.v[j])

(* C20: every field value of a serialized tree has one of the four       *)
(* shapes (scalar, node, list of nodes, list of scalars), and writing the *)
(* result of a successful parse never fails to encode.                    *)
C20_FieldValueShapes ==
    (pos > 0 /\ ParseLine(input[pos])) =>
        /\ uncaught # "TypeError"
        /\ (state = "Running" /\ pc = "write") =>
              FieldShapes(DictGet(response, "ast", PyDict(<<>>)))

(* Every serialized node of a serialized tree, in left-to-right pre-order *)
RECURSIVE SerializedNodesOf(_), SerializedNodesOfList(_, _)
SerializedNodesOfList(vals, i) ==
    IF i > Len(vals) THEN <<>>
    ELSE SerializedNodesOf(vals[i]) \o SerializedNodesOfList(vals, i + 1)

SerializedNodesOf(x) ==
    CASE x.t = "dict" ->
            (IF HasKey(x, "_type") THEN << x >> ELSE <<>>)
                \o SerializedNodesOfList([i \in 1..Len(x.v) |-> x.v[i].v], 1)
      [] x.t = "list" -> SerializedNodesOfList(x.v, 1)
      [] OTHER -> <<>>

ParseWritten == state = "Running" /\ pc = "write" /\ ParseLine(input[pos])

NativeNodes == NodesOf(TreeOf(ContentOf(input[pos]).v))

EmittedNodes == SerializedNodesOf(DictGet(response, "ast", PyNone))

(* C21: each of the four location members is in a serialized node exactly *)
(* when the native node has that attribute, with the node's value: none   *)
(* is made up and none is dropped.                                        *)
C21_LocationAsCarried ==
    ParseWritten =>
        /\ Len(EmittedNodes) = Len(NativeNodes)
        /\ \A i \in 1..Len(EmittedNodes) :
              /\ i <= Len(NativeNodes)
              /\ DictGet(EmittedNodes[i], "_type", PyNone) = PyStr(NativeNodes[i].type)
              /\ \A j \in 1..Len(LocationAttrs) :
                    /\ HasKey(EmittedNodes[i], LocationAttrs[j])
                          <=> HasAttr(NativeNodes[i], LocationAttrs[j])
                    /\ HasAttr(NativeNodes[i], LocationAttrs[j]) =>
                          DictGet(EmittedNodes[i], LocationAttrs[j], PyNone)
                              = GetAttr(NativeNodes[i], LocationAttrs[j])

C21_Witness ==
    /\ ParseWritten
    /\ ContentOf(input[pos]) = PyStr(SrcNested)
    /\ Len(EmittedNodes) > 3
    /\ ~HasKey(EmittedNodes[1], "lineno")
    /\ ~HasKey(EmittedNodes[1], "end_col_offset")
    /\ DictGet(EmittedNodes[2], "lineno", PyNone) = PyInt(1)
    /\ DictGet(EmittedNodes[2], "end_lineno", PyNone) = PyInt(2)

(* ---------------------------------------------------------------------- *)
(* Vocabulary of the module resolver claims                               *)
(* ---------------------------------------------------------------------- *)
ModuleNameOf(line) == DictGet(line.value, "module_name", PyNone)

(* A resolve_module request that reaches the resolver *)
ResolveLine(line) == IsCommand(line, "resolve_module") /\ Truthy(ModuleNameOf(line))

WithoutId(resp) == PyDict(SelectSeq(resp.v, LAMBDA it : it.k # "id"))

(* C22: no failure of the host import reaches the session: a             *)
(* resolve_module request is always answered, with success or with a      *)
(* failure that names the class of the failure and its message, and the   *)
(* session goes on.                                                       *)
C22_ResolveNeverPropagates ==
    (pos > 0 /\ ResolveLine(input[pos])) =>
        /\ state # "Crashed"
        /\ Answered =>
              \/ IsSuccess(LastResponse)
              \/ /\ IsFailure(LastResponse)
                 /\ DictGet(LastResponse, "error", PyNone).t = "str"
                 /\ DictGet(LastResponse, "message", PyNone).t = "str"

(* Modules the host cannot locate, among the names requested *)
NotLocatable == {"nope_xyz"}

C24_IdempotentResolution ==
    \A k, l \in 1..Len(output) :
        ( /\ ResolveLine(OutputLine(k)) /\ ResolveLine(OutputLine(l))
          /\ ModuleNameOf(OutputLine(k)) = ModuleNameOf(OutputLine(l)) ) =>
              WithoutId(output[k]) = WithoutId(output[l])

C24_Witness ==
    /\ Answered /\ pos = 3 /\ Len(output) = 3
    /\ ResolveLine(input[1]) /\ ResolveLine(input[3])
    /\ ModuleNameOf(input[1]) = PyStr("colorsys")
    /\ ModuleNameOf(input[3]) = PyStr("colorsys")
    /\ input[2] = GarbageLine
    /\ output[1] # output[3]
    /\ WithoutId(output[1]) = WithoutId(output[3])
    /\ IsSuccess(output[3])

(* ---------------------------------------------------------------------- *)
(* Vocabulary of the session claims                                       *)
(* ---------------------------------------------------------------------- *)
(* A request answered from its own text: parse_content, or                *)
(* extract_imports with content                                           *)
SelfContained(line) ==
    \/ IsCommand(line, "parse_content")
    \/ IsCommand(line, "extract_imports") /\ ContentSupplied(line)

(* The response to a request that is the first line of a session *)
ResponseAlone(line) ==
    LET d == Dispatch(line.value, PreloadedModules)
    IN  AttachId(d.res.value, d.request_id)

(* C25: the response to a parse_content request, or to an                 *)
(* extract_imports request with content, is the response that request     *)
(* gets as the first line of a session, wherever it stands and whatever   *)
(* valid, failing or malformed requests came before it.                   *)
C25_ResponseOfRequestAlone ==
    \A k \in 1..Len(output) :
        SelfContained(OutputLine(k)) => output[k] = ResponseAlone(OutputLine(k))

C25_Witness ==
    /\ Answered /\ pos = 3 /\ Len(output) = 3
    /\ IsCommand(input[1], "resolve_module") /\ "colorsys" \in sys_modules
    /\ IsFailure(output[2]) /\ HasKey(output[2], "id")
    /\ SelfContained(input[3])
    /\ ~HasKey(input[3].value, "id")
    /\ IsSuccess(output[3]) /\ ~HasKey(output[3], "id")

(* ---------------------------------------------------------------------- *)
(* Vocabulary of the batch mode claims                                    *)
(* ---------------------------------------------------------------------- *)
Exited == state \in {"Terminated", "Crashed"}

BatchMode == ~InArgv(argv, "--server")

(* The accepted shapes: --server, <file>, extract_imports <file>,         *)
(* resolve_module <name>                                                  *)
AcceptedShape(a) ==
    \/ InArgv(a, "--server")
    \/ Len(a) = 2
    \/ Len(a) = 3 /\ a[2] \in {"extract_imports", "resolve_module"}

(* C26: an invocation of no accepted shape prints a usage error and exits *)
(* with a non-zero status; an invocation of an accepted shape exits with  *)
(* status 0, a reported parse failure included.                           *)
C26_ExitStatus ==
    Exited =>
        IF AcceptedShape(argv)
        THEN ExitStatus = 0
        ELSE /\ ExitStatus # 0
             /\ Len(output) = 1
             /\ IsFailure(output[1])

(* C27: a batch invocation has printed exactly one JSON object when it    *)
(* exits, for each operation and each outcome.                            *)
C27_OneObjectPerInvocation ==
    (Exited /\ BatchMode) => (Len(output) = 1 /\ output[1].t = "dict")

(* The inputs of an embeddings request, a single string counting as one *)
InputsOf(body) ==
    IF body.inputs.t = "str" THEN << body.inputs.chars >> ELSE body.inputs.v

(* C28: a request answered with status 200 has one vector per input, in   *)
(* input order: one for a single string, as many as the list has strings  *)
(* for a list, blank strings included.                                    *)
C28_OneVectorPerInput ==
    (pc = "responded" /\ response.status = 200) =>
        /\ Len(response.embeddings) = Len(InputsOf(message))
        /\ \A i \in 1..Len(response.embeddings) :
              i <= Len(InputsOf(message))
                 /\ response.embeddings[i]
                       = [vector_of |-> JoinWords(sanitize_text(InputsOf(message)[i]), 1)]

(* What a session writes for a stream without blank lines: each line is  *)
(* decoded, dispatched and answered in turn, up to the first shutdown, the *)
(* first escaping exception, or the end of the stream.                    *)
RECURSIVE SessionOutput(_, _, _, _)
AfterDispatch(lines, i, out, d) ==
    IF d.res.raised THEN out
    ELSE IF d.branch = "shutdown"
    THEN Append(out, AttachId(d.res.value, d.request_id))
    ELSE IF ~JsonSerializable(AttachId(d.res.value, d.request_id)) THEN out
    ELSE SessionOutput(lines, i + 1, d.modules,
                       Append(out, AttachId(d.res.value, d.request_id)))

SessionOutput(lines, i, modules, out) ==
    IF i > Len(lines) THEN out
    ELSE IF json_loads(lines[i]).raised
    THEN SessionOutput(lines, i + 1, modules, Append(out, InvalidJSONResponse))
    ELSE AfterDispatch(lines, i, out, Dispatch(json_loads(lines[i]).value, modules))

NotBlank(line) == ~IsBlank(line)

WithoutBlanks(lines) == SelectSeq(lines, NotBlank)

(* C29: a step that reads a blank line changes nothing but the read       *)
(* position (no output, nothing dispatched, the session still Running),   *)
(* and the output of a finished session is the output of the same stream  *)
(* with its blank lines removed.                                          *)
C29_BlankLinesSkipped ==
    /\ [][(pc = "read" /\ pos < Len(input) /\ IsBlank(input[pos + 1]) /\ pos' # pos)
            => /\ pos' = pos + 1
               /\ state' = "Running" /\ pc' = "read"
               /\ UNCHANGED << output, calls, message, response, request_id,
                               sys_modules, uncaught >>]_vars
    /\ [](Finished => output = SessionOutput(WithoutBlanks(input), 1, PreloadedModules, <<>>))

C29_Witness ==
    /\ state = "Terminated"
    /\ Len(output) >= 2
    /\ \E i \in 2..(Len(input) - 1) :
          /\ IsBlank(input[i]) /\ ~IsBlank(input[i - 1]) /\ ~IsBlank(input[i + 1])
          /\ pos > i

(* C30: every session over a finite stream eventually reaches            *)
(* Terminated, and does so at the first shutdown request or at the end of *)
(* the input; the step that meets the end of the input writes nothing;    *)
(* the responses written never outnumber the non-blank lines read.        *)
C30_Termination ==
    /\ <>(state = "Terminated")
    /\ [](state = "Terminated" =>
             /\ \A i \in 1..(pos - 1) : ~IsShutdownLine(input[i])
             /\ pos = Len(input) \/ IsShutdownLine(input[pos]))
    /\ [][(state = "Running" /\ pc = "read" /\ pos = Len(input)) => output' = output]_vars
    /\ [](Len(output) <= NonBlank(pos))

(* The request at pos has run its branch and its response is about to be  *)
(* written.                                                               *)
Responding(name) ==
    state = "Running" /\ pc = "write" /\ IsCommand(input[pos], name)

(* What parse_content returns for the content of a request when the       *)
(* request has no file_path member                                        *)
Unlabelled(line) ==
    parse_content(IF Truthy(ContentOf(line)) THEN ContentOf(line) ELSE PyStr(""),
                  PyStr("<memory>")).res.value

(* C31: a parse_content request opens no file, and its success flag and   *)
(* tree are those of the same content without a file_path member,         *)
(* whatever the file_path member is.                                      *)
C31_FilePathIsLabel ==
    Responding("parse_content") =>
        /\ \A i \in 1..Len(calls) : calls[i].fn # "open"
        /\ DictGet(response, "success", PyNone)
              = DictGet(Unlabelled(input[pos]), "success", PyNone)
        /\ DictGet(response, "ast", PyNone) = DictGet(Unlabelled(input[pos]), "ast", PyNone)

(* Content that does not conform to the grammar *)
Ungrammatical(line) == ContentOf(line) = PyStr(SrcSyntax)

PayloadMembers == {"ast", "imports", "resolved_path", "shutdown", "content"}

IsIntOrNone(x) == x.t \in {"int", "None"}

(* C32: parse_content and extract_imports answer content that does not    *)
(* conform to the grammar with success = false, error "SyntaxError",      *)
(* lineno and offset members (a number or null) and no ast or imports     *)
(* member; every response written has a boolean success member, and a     *)
(* payload member only when success is true.                              *)
C32_SyntaxFailureIsData ==
    /\ ((Responding("parse_content") \/ Responding("extract_imports"))
           /\ Ungrammatical(input[pos])) =>
          /\ DictGet(response, "success", PyNone) = PyBool(FALSE)
          /\ DictGet(response, "error", PyNone) = PyStr("SyntaxError")
          /\ HasKey(response, "lineno") /\ IsIntOrNone(DictGet(response, "lineno", PyNone))
          /\ HasKey(response, "offset") /\ IsIntOrNone(DictGet(response, "offset", PyNone))
          /\ ~HasKey(response, "ast") /\ ~HasKey(response, "imports")
    /\ \A k \in 1..Len(output) :
          /\ DictGet(output[k], "success", PyNone).t = "bool"
          /\ (\E m \in PayloadMembers : HasKey(output[k], m)) => IsSuccess(output[k])

(* What parse_content returns for the content and file_path of a request *)
ParseAnswer(line) ==
    parse_content(ContentOf(line), DictGet(line.value, "file_path", PyStr("<memory>"))).res.value

IsSyntaxFailure(resp) == DictGet(resp, "error", PyNone) = PyStr("SyntaxError")

(* C33: extract_imports on a content string succeeds exactly when         *)
(* parse_content succeeds on the same string, and when both report a      *)
(* syntax error they report the same lineno and offset.                   *)
C33_SameAcceptance ==
    (Responding("extract_imports") /\ ContentOf(input[pos]).t = "str") =>
        /\ IsSuccess(response) <=> IsSuccess(ParseAnswer(input[pos]))
        /\ (IsSyntaxFailure(response) /\ IsSyntaxFailure(ParseAnswer(input[pos]))) =>
              /\ DictGet(response, "lineno", PyNone)
                    = DictGet(ParseAnswer(input[pos]), "lineno", PyNone)
              /\ DictGet(response, "offset", PyNone)
                    = DictGet(ParseAnswer(input[pos]), "offset", PyNone)

(* The empty values of the wire format *)
EmptyValues ==
    { PyNone, PyStr(""), PyInt(0), PyBool(FALSE), PyList(<< >>), PyDict(<< >>) }

(* A resolve_module request whose module_name member is a non-empty value *)
NamesModule(line) ==
    /\ IsCommand(line, "resolve_module")
    /\ HasKey(line.value, "module_name")
    /\ ModuleNameOf(line) \notin EmptyValues

LookedUp == \E i \in 1..Len(calls) : calls[i].fn = "import_module"

(* C34: the host module lookup runs, and the set of loaded modules        *)
(* changes, only for a resolve_module request whose module_name is a      *)
(* non-empty value; a resolve_module request whose module_name is absent, *)
(* null, "" or another empty value is answered MissingModule with no      *)
(* lookup.                                                                *)
C34_LookupOnlyForNamedModule ==
    /\ [][((calls' # calls /\ LookedUp') \/ sys_modules' # sys_modules)
             => (pos > 0 /\ NamesModule(input[pos]))]_vars
    /\ []((Answered /\ IsCommand(LastLine, "resolve_module") /\ ~NamesModule(LastLine)) =>
             /\ ~LookedUp
             /\ WithoutId(LastResponse) = MissingModuleResponse)

C34_Witness ==
    /\ Answered /\ Len(output) = 2
    /\ IsCommand(LastLine, "resolve_module")
    /\ ModuleNameOf(LastLine) = PyStr("")
    /\ WithoutId(LastResponse) = MissingModuleResponse
    /\ NamesModule(input[1]) /\ IsSuccess(output[1])
    /\ sys_modules # PreloadedModules

(* A helper invoked as `<file>` *)
ParsesFile == Len(argv) = 2 /\ argv[2] # "--server"

(* What the other helper returns for the same file *)
OtherVariant ==
    IF argv[1] = Helper
    THEN legacy_parse_file(PyStr(argv[2])).res
    ELSE parse_file(PyStr(argv[2])).res

(* The other helper prints its result as one JSON object *)
OtherPrints == ~OtherVariant.raised /\ JsonSerializable(OtherVariant.value)

(* C35: invoked as `<file>`, either helper has printed exactly one JSON    *)
(* object when it exits, the other helper prints one for the same file,   *)
(* the two carry the same success flag and, on success, the same ast and  *)
(* content.                                                               *)
C35_VariantsAgree ==
    (Exited /\ ParsesFile) =>
        /\ Len(output) = 1 /\ output[1].t = "dict"
        /\ OtherPrints
        /\ DictGet(output[1], "success", PyNone) = DictGet(OtherVariant.value, "success", PyNone)
        /\ IsSuccess(output[1]) =>
              /\ DictGet(output[1], "ast", PyNone) = DictGet(OtherVariant.value, "ast", PyNone)
              /\ DictGet(output[1], "content", PyNone)
                    = DictGet(OtherVariant.value, "content", PyNone)

====
